---- MODULE Spec2Model ----
(***************************************************************************)
(* photonic-ring: PBR map synthesis and the BC3/DDS channel packer.        *)
(*                                                                         *)
(* One call of one entry point per behaviour:                              *)
(*   ChannelPacker::pack_rgba, ::save_as_dds, ::pack_and_save_dds          *)
(*   (src/rust/src/channel_packer.rs),                                     *)
(*   the functions that fill an image in a parallel per-pixel pass         *)
(*   (normal_map.rs, roughness_map.rs, height_map.rs),                     *)
(*   generate of the height, normal and roughness generators, followed     *)
(*   step by step on the sizes of the images.                              *)
(* The environment (what the output path held before the call, whether an  *)
(* I/O step succeeds, how many bytes reached the file when it fails) is    *)
(* chosen nondeterministically.                                            *)
(***************************************************************************)
EXTENDS Integers, Sequences, FiniteSets, TLC

VARIABLES
    pc,             \* position inside the running call
    op,             \* the entry point that was called
    rgb_source,     \* pack_rgba: &DynamicImage
    alpha_source,   \* pack_rgba: &DynamicImage
    packed,         \* pack_rgba: the returned RgbaImage
    image,          \* save_as_dds: image.dimensions()
    compressed,     \* save_as_dds: compressed.len() (usize)
    compress_calls, \* number of texpresso compress runs
    dds_data,       \* save_as_dds: the Vec<u8> being assembled
    fs,             \* the file at output_path
    fs0,            \* the file at output_path when the call started
    io_log,         \* the I/O steps attempted, in order
    result,         \* the value returned to the caller
    pass_arg,       \* a per-pixel pass: the image the function was given
    pass_in,        \* the buffer the closure borrows immutably
    pass_out,       \* the ImageBuffer the closure writes, one pixel per item
    pass_cursor,    \* par_bridge: the next item of enumerate_pixels_mut()
    pass_held,      \* the item each worker holds (-1: none)
    pass_writes,    \* how often each output pixel has been written
    albedo,         \* generate: the size of the image it was given
    gray,           \* generate: the size of the converted input
    pyramid,        \* HeightMapGenerator: the sizes of the pyramid's levels
    current,        \* generate: the size of the image the last step left
    source,         \* RoughnessMapGenerator::generate: the albedo's pixels
    rgba,           \* ... let rgba = albedo.to_rgba8()
    fused,          \* ... the six factors of every pixel of roughness_map
    roughness_map,  \* ... the GrayImage the fusion pass filled
    smoothed,       \* ... what the smoothing closure computed per pixel
    albedo_path,    \* generate_maps: the path of the albedo
    output_dir,     \* generate_maps: the output directory, "" for none
    record,         \* generate_maps: the VarDictionary `result`
    tasks,          \* generate_maps: where the two closures of rayon::join are
    buffers,        \* generate_maps: the images generated so far
    accesses,       \* generate_maps: who read or wrote which buffer
    disk,           \* generate_maps: the files at the three output paths
    save_log,       \* generate_maps: the saves attempted, in order
    lp_image,       \* build_laplacian_pyramid: image
    lp_levels,      \* build_laplacian_pyramid: levels
    lp_working,     \* ... the values `current` has taken, in order
    lp_pyramid,     \* the Vec<GrayImage> built, enhanced and popped from
    lp_boost,       \* enhance_pyramid_levels: the boost given to each level
    lp_current,     \* reconstruct_from_pyramid: current
    clahe_image,    \* adaptive_clahe: image
    clahe_histogram,\* adaptive_clahe: histogram
    clahe_clipped,  \* adaptive_clahe: clipped
    clahe_cdf       \* adaptive_clahe: cdf

packerVars == <<rgb_source, alpha_source, packed, image, compressed,
                compress_calls, dds_data, fs, fs0, io_log>>

passVars == <<pass_arg, pass_in, pass_out, pass_cursor, pass_held, pass_writes>>

genVars == <<albedo, gray, pyramid, current>>

texVars == <<source, rgba, fused, roughness_map, smoothed>>

mapsVars == <<albedo_path, output_dir, record, tasks, buffers, accesses,
              disk, save_log>>

lpVars == <<lp_image, lp_levels, lp_working, lp_pyramid, lp_boost, lp_current>>

claheVars == <<clahe_image, clahe_histogram, clahe_clipped, clahe_cdf>>

vars == <<pc, op, result, packerVars, passVars, genVars, texVars, mapsVars,
          lpVars, claheVars>>

-----------------------------------------------------------------------------
(* Bounds of the model.                                                    *)

\* save_as_dds is called with every width and height in 0..MaxDim ...
MaxDim == 12
\* ... and with the dimensions at which block_count * 16 reaches 2^32.
LargeDims == {65536}
\* pack_rgba sources have sides 1..MaxPackDim.
MaxPackDim == 4
\* Pixel patterns of the sources.
MaxSeed == 1
\* Widths and heights of the images given to a per-pixel pass.
PassShapes == {<<1, 1>>, <<2, 1>>, <<1, 2>>, <<2, 2>>, <<3, 2>>}
\* Images given to a generator have sides 1..MaxGenDim.
MaxGenDim == 9
\* Threads of the rayon pool that take items of a bridged iterator.
NumWorkers == 2
\* build_laplacian_pyramid is called with 0..MaxLevels levels.
MaxLevels == 3

-----------------------------------------------------------------------------
(* Machine integers.  TLC's integers are 32-bit signed, so a usize or u32  *)
(* value that may reach 2^32 is kept as two 16-bit limbs, value =          *)
(* hi * 2^16 + lo.                                                         *)

Limb == 2^16

W(n) == [hi |-> n \div Limb, lo |-> n % Limb]

WTimes(a, k) ==
    LET l == a.lo * k
    IN  [hi |-> a.hi * k + l \div Limb, lo |-> l % Limb]

WPlus(a, b) ==
    LET l == a.lo + b.lo
    IN  [hi |-> a.hi + b.hi + l \div Limb, lo |-> l % Limb]

\* A usize value cast or computed as u32: does it fit, and what it wraps to.
FitsU32(a) == a.hi < Limb

WrapU32(a) == [hi |-> a.hi % Limb, lo |-> a.lo]

\* u32::to_le_bytes
to_le_bytes(u) == <<u.lo % 256, u.lo \div 256, u.hi % 256, u.hi \div 256>>

-----------------------------------------------------------------------------
(* Images.  A DynamicImage is one of the 8-bit variants; px is the raw     *)
(* buffer, row-major, one tuple of samples per pixel.                      *)

Variants == {"Luma8", "Rgb8", "Rgba8"}

Pix(variant, seed, x, y) ==
    LET r == (seed * 37 + x * 50 + y * 90 + 11) % 256
        g == (seed * 91 + x * 20 + y * 3 + 7) % 256
        b == (seed * 53 + y * 60 + 200) % 256
        a == (255 - 40 * x - seed) % 256
    IN  CASE variant = "Luma8" -> <<r>>
          [] variant = "Rgb8"  -> <<r, g, b>>
          [] OTHER             -> <<r, g, b, a>>

GenImage(variant, w, h, seed) ==
    [variant |-> variant, width |-> w, height |-> h,
     px |-> [i \in 0..(w * h - 1) |-> Pix(variant, seed, i % w, i \div w)]]

NoImage == [variant |-> "Rgba8", width |-> 0, height |-> 0, px |-> <<>>]

dimensions(img) == <<img.width, img.height>>

get_pixel(img, x, y) == img.px[y * img.width + x]

\* DynamicImage::to_rgba8: grey is replicated, a missing alpha is opaque.
to_rgba8(img) ==
    [variant |-> "Rgba8", width |-> img.width, height |-> img.height,
     px |-> [i \in DOMAIN img.px |->
               CASE img.variant = "Luma8" ->
                        <<img.px[i][1], img.px[i][1], img.px[i][1], 255>>
                 [] img.variant = "Rgb8" ->
                        <<img.px[i][1], img.px[i][2], img.px[i][3], 255>>
                 [] OTHER -> img.px[i]]]

\* DynamicImage::to_luma8: Rec. 709 weights in integer arithmetic.
to_luma8(img) ==
    [variant |-> "Luma8", width |-> img.width, height |-> img.height,
     px |-> [i \in DOMAIN img.px |->
               IF img.variant = "Luma8"
               THEN img.px[i]
               ELSE <<(2126 * img.px[i][1] + 7152 * img.px[i][2]
                       + 722 * img.px[i][3]) \div 10000>>]]

\* DynamicImage::resize_exact(width, height, Lanczos3): an image of exactly
\* the requested size and of the source's variant; the resampled samples are
\* left open.
resize_exact(img, width, height) ==
    { GenImage(img.variant, width, height, s) : s \in 0..MaxSeed }

-----------------------------------------------------------------------------
(* ChannelPacker::pack_rgba                                                *)

PackPixel_AlphaFirst(rgb_pixel, alpha_value) ==
    <<alpha_value, rgb_pixel[1], rgb_pixel[2], rgb_pixel[3]>>

PackPixel(rgb_pixel, alpha_value) ==
    <<rgb_pixel[1], rgb_pixel[2], rgb_pixel[3], alpha_value>>

\* The alpha source as used: resampled only when the dimensions differ.
AlphaResized(rgb, alpha) ==
    IF dimensions(alpha) # dimensions(rgb)
    THEN resize_exact(alpha, rgb.width, rgb.height)
    ELSE {alpha}

pack_rgba(rgb, alpha_resized) ==
    LET width      == rgb.width
        height     == rgb.height
        rgb_rgba   == to_rgba8(rgb)
        alpha_gray == to_luma8(alpha_resized)
    IN  [variant |-> "Rgba8", width |-> width, height |-> height,
         px |-> [i \in 0..(width * height - 1) |->
                   PackPixel(get_pixel(rgb_rgba, i % width, i \div width),
                             get_pixel(alpha_gray, i % width, i \div width)[1])]]

-----------------------------------------------------------------------------
(* ChannelPacker::save_as_dds: the pure part.                              *)

DimensionsRejected_Both(width, height) == width % 4 # 0 /\ height % 4 # 0

DimensionsRejected(width, height) == width % 4 # 0 \/ height % 4 # 0

\* ((width / 4) * (height / 4)) as usize.  The u32 product of the modelled
\* dimensions is at most 2^28 and does not wrap.
block_count(width, height) == (width \div 4) * (height \div 4)

CompressedLen_Bc1(blocks) == WTimes(W(blocks), 8)

\* vec![0u8; block_count * 16]
CompressedLen(blocks) == WTimes(W(blocks), 16)

\* (block_count as u32) * 16, before the overflow check or the wrap.
LinearSizeProduct(blocks) == WTimes(WrapU32(W(blocks)), 16)

header_size == 124
flags == 1 + 2 + 4 + 4096 + 524288
depth == 0
mipmap_count == 1
pf_size == 32
pf_flags == 4
four_cc == <<68, 88, 84, 53>>
caps == 4096

Field(name, bytes) == [name |-> name, bytes |-> bytes]

Magic == << Field("magic", <<68, 68, 83, 32>>) >>

HeaderWords_WidthFirst(width, height, pitch_or_linear_size) ==
    << Field("header_size", to_le_bytes(W(header_size))),
       Field("flags", to_le_bytes(W(flags))),
       Field("width", to_le_bytes(W(width))),
       Field("height", to_le_bytes(W(height))),
       Field("pitch_or_linear_size", to_le_bytes(pitch_or_linear_size)),
       Field("depth", to_le_bytes(W(depth))),
       Field("mipmap_count", to_le_bytes(W(mipmap_count))) >>

HeaderWords(width, height, pitch_or_linear_size) ==
    << Field("header_size", to_le_bytes(W(header_size))),
       Field("flags", to_le_bytes(W(flags))),
       Field("height", to_le_bytes(W(height))),
       Field("width", to_le_bytes(W(width))),
       Field("pitch_or_linear_size", to_le_bytes(pitch_or_linear_size)),
       Field("depth", to_le_bytes(W(depth))),
       Field("mipmap_count", to_le_bytes(W(mipmap_count))) >>

Reserved1_Ten == [i \in 1..10 |-> Field("reserved1", to_le_bytes(W(0)))]

Reserved1 == [i \in 1..11 |-> Field("reserved1", to_le_bytes(W(0)))]

PixelFormat ==
    << Field("pf_size", to_le_bytes(W(pf_size))),
       Field("pf_flags", to_le_bytes(W(pf_flags))),
       Field("four_cc", four_cc),
       Field("rgb_bit_count", to_le_bytes(W(0))),
       Field("r_bitmask", to_le_bytes(W(0))),
       Field("g_bitmask", to_le_bytes(W(0))),
       Field("b_bitmask", to_le_bytes(W(0))),
       Field("a_bitmask", to_le_bytes(W(0))) >>

Caps ==
    << Field("caps", to_le_bytes(W(caps))),
       Field("caps2", to_le_bytes(W(0))),
       Field("caps3", to_le_bytes(W(0))),
       Field("caps4", to_le_bytes(W(0))),
       Field("reserved2", to_le_bytes(W(0))) >>

\* The extend_from_slice calls that precede the payload, in order.
DdsFields(width, height, pitch_or_linear_size) ==
    Magic \o HeaderWords(width, height, pitch_or_linear_size) \o Reserved1
          \o PixelFormat \o Caps

RECURSIVE Concat(_)
Concat(fields) ==
    IF fields = <<>> THEN <<>>
    ELSE Head(fields).bytes \o Concat(Tail(fields))

\* A Vec<u8> or a file: the bytes written out one by one, followed by
\* `payload` bytes of texpresso output.
Bytes(bytes, payload) == [bytes |-> bytes, payload |-> payload]

EmptyVec == Bytes(<<>>, W(0))

\* dds_data once line 132 has appended the compressed blocks.
SerializeRecord(width, height, pitch_or_linear_size, compressed_len) ==
    Bytes(Concat(DdsFields(width, height, pitch_or_linear_size)), compressed_len)

-----------------------------------------------------------------------------
(* Values returned to the caller.                                          *)

Res(tag, msg, cause, width, height) ==
    [tag |-> tag, msg |-> msg, cause |-> cause, width |-> width, height |-> height]

NoResult == Res("none", "", "", 0, 0)

OkResult == Res("Ok", "", "", 0, 0)

\* pack_rgba returns the packed image itself (held in `packed`).
ImageResult == Res("Image", "", "", 0, 0)

DimensionError(width, height) ==
    Res("Err", "Image dimensions {}x{} must be multiples of 4 for BC3 compression",
        "", width, height)

\* The message each map_err closure puts before the cause.
StepMessage(step) ==
    CASE step = "create" -> "Failed to create file: "
      [] step = "write"  -> "Failed to write DDS: "
      [] OTHER           -> "Failed to flush file: "

IoError(step, cause) == Res("Err", StepMessage(step), cause, 0, 0)

\* Arithmetic overflow in a build with overflow checks.
Panic == Res("panic", "attempt to multiply with overflow", "", 0, 0)

\* An image of the given size.
ImageOf(shape) == Res("Image", "", "", shape.width, shape.height)

\* The VarDictionary of generate_maps, whose content is `record`.
DictionaryResult == Res("Dictionary", "", "", 0, 0)

\* ImageBuffer::get_pixel outside the buffer.
IndexPanicResult == Res("panic", "Image index out of bounds", "", 0, 0)

-----------------------------------------------------------------------------
(* The environment: the file at output_path and the causes of I/O errors.  *)

Causes == {"PermissionDenied", "StorageFull"}

File(exists, data) == [exists |-> exists, data |-> data]

Absent == File(FALSE, EmptyVec)

\* What an earlier, unrelated write left at the path.
OldFile == File(TRUE, Bytes(<<79, 76, 68>>, W(0)))

\* The prefixes of a record that an interrupted write may leave behind:
\* nothing, the magic, everything but the payload, everything.
Prefixes(d) ==
    { Bytes(SubSeq(d.bytes, 1, n), W(0)) : n \in {0, 4, Len(d.bytes)} } \cup {d}

\* p holds at least what q holds.
Extends(p, q) ==
    /\ Len(p.bytes) >= Len(q.bytes)
    /\ q.payload = W(0) \/ p.payload = q.payload

-----------------------------------------------------------------------------
(* Control flow of save_as_dds after line 132: each `?` returns on Err.    *)

AfterStep_IgnoreError(step, ok) ==
    CASE step = "create" -> "write"
      [] step = "write"  -> "flush"
      [] OTHER           -> "returned"

AfterStep(step, ok) ==
    IF ~ok THEN "returned"
    ELSE CASE step = "create" -> "write"
           [] step = "write"  -> "flush"
           [] OTHER           -> "returned"

StepResult_SwallowFlush(step, ok, cause) ==
    IF step = "flush" THEN OkResult
    ELSE IF ~ok THEN IoError(step, cause) ELSE result

StepResult(step, ok, cause) ==
    IF ~ok THEN IoError(step, cause)
    ELSE IF step = "flush" THEN OkResult ELSE result

Logged(step, ok, cause) ==
    Append(io_log, [step |-> step, ok |-> ok, cause |-> IF ok THEN "" ELSE cause])

-----------------------------------------------------------------------------
(* The per-pixel closures of the parallel passes.  A closure is given the  *)
(* coordinates of its item and borrows the input image immutably.  Sums of *)
(* 8-bit samples are kept exact as integers; where the code goes on in f32 *)
(* (square roots, exponentials, divisions) the value is kept as the record *)
(* of the exact quantities the f32 expression is computed from.            *)

clamp(v, lo, hi) == IF v < lo THEN lo ELSE IF v > hi THEN hi ELSE v

Abs(v) == IF v < 0 THEN -v ELSE v

\* values.iter().sum(), and the running sums of the loops
RECURSIVE SumRange(_, _, _)
SumRange(s, lo, hi) ==
    IF lo > hi THEN 0
    ELSE IF lo = hi THEN s[lo]
    ELSE SumRange(s, lo, (lo + hi) \div 2) + SumRange(s, (lo + hi) \div 2 + 1, hi)

SeqSum(s) == SumRange(s, 1, Len(s))

Max3(r, g, b) ==
    IF r >= g /\ r >= b THEN r ELSE IF g >= b THEN g ELSE b

Min3(r, g, b) ==
    IF r <= g /\ r <= b THEN r ELSE IF g <= b THEN g ELSE b

\* for dy in -radius..=radius { for dx in -radius..=radius { .. } }
Window(radius) ==
    [k \in 1..((2 * radius + 1) * (2 * radius + 1)) |->
        <<((k - 1) % (2 * radius + 1)) - radius,
          ((k - 1) \div (2 * radius + 1)) - radius>>]

\* A neighbour that wraps around the border.
Neighbour_Wrapped(img, x, y, d) ==
    <<(x + d[1] + img.width) % img.width, (y + d[2] + img.height) % img.height>>

\* (x as i32 + dx).clamp(0, width as i32 - 1), the same for y
Neighbour(img, x, y, d) ==
    <<clamp(x + d[1], 0, img.width - 1), clamp(y + d[2], 0, img.height - 1)>>

\* A coordinate asked for and the coordinate get_pixel is given for it.
Read(img, x, y, d) ==
    [want |-> <<x + d[1], y + d[2]>>, got |-> Neighbour(img, x, y, d)]

\* The kernels of scharr_x and scharr_y together: the eight neighbours.
ScharrOffsets == ((-1..1) \X (-1..1)) \ {<<0, 0>>}

\* A sample that is 0 where the unclamped coordinate is outside the image.
Sample_ZeroOutside(img, x, y, d) ==
    IF x + d[1] \in 0..(img.width - 1) /\ y + d[2] \in 0..(img.height - 1)
    THEN get_pixel(img, x + d[1], y + d[2])[1]
    ELSE 0

\* image.get_pixel(nx, ny)[0] of a GrayImage, in 1/255
Sample(img, x, y, d) ==
    get_pixel(img, Neighbour(img, x, y, d)[1], Neighbour(img, x, y, d)[2])[1]

\* NormalMapGenerator::scharr_x, in 1/(255*16)
scharr_x(img, x, y) ==
      -3 * Sample(img, x, y, <<-1, -1>>) + 3 * Sample(img, x, y, <<1, -1>>)
    - 10 * Sample(img, x, y, <<-1, 0>>) + 10 * Sample(img, x, y, <<1, 0>>)
    -  3 * Sample(img, x, y, <<-1, 1>>) + 3 * Sample(img, x, y, <<1, 1>>)

\* NormalMapGenerator::scharr_y, in 1/(255*16)
scharr_y(img, x, y) ==
      -3 * Sample(img, x, y, <<-1, -1>>) - 10 * Sample(img, x, y, <<0, -1>>)
    -  3 * Sample(img, x, y, <<1, -1>>) + 3 * Sample(img, x, y, <<-1, 1>>)
    + 10 * Sample(img, x, y, <<0, 1>>) + 3 * Sample(img, x, y, <<1, 1>>)

strength == 4

compute_adaptive_gradients(img, x, y) ==
    <<scharr_x(img, x, y) * strength, scharr_y(img, x, y) * strength>>

\* The closure of NormalMapGenerator::generate: the normal before
\* normalize(), times 255*16.  _tensor is computed and dropped.
NormalPixel(img, x, y) ==
    [nx |-> -compute_adaptive_gradients(img, x, y)[1],
     ny |-> -compute_adaptive_gradients(img, x, y)[2],
     nz |-> 255 * 16]

\* RoughnessMapGenerator::get_luminance, in 1/(255*10000)
get_luminance(img, x, y) ==
      2126 * get_pixel(img, x, y)[1] + 7152 * get_pixel(img, x, y)[2]
    +  722 * get_pixel(img, x, y)[3]

LuminanceAt_ZeroOutside(img, x, y, d) ==
    IF x + d[1] \in 0..(img.width - 1) /\ y + d[2] \in 0..(img.height - 1)
    THEN get_luminance(img, x + d[1], y + d[2])
    ELSE 0

LuminanceAt(img, x, y, d) ==
    get_luminance(img, Neighbour(img, x, y, d)[1], Neighbour(img, x, y, d)[2])

\* The luminances a window pushes into `values`, in loop order.
WindowValues(img, x, y, radius) ==
    [k \in DOMAIN Window(radius) |-> LuminanceAt(img, x, y, Window(radius)[k])]

\* analyze_frequency_content: the differences at distance <= 1.5 summed,
\* and those further out in loop order (each is divided by its distance
\* before it is added; 0 stands where the loop adds nothing to the sum).
analyze_frequency_content(img, x, y) ==
    LET win == Window(5)
        center_lum == get_luminance(img, x, y)
        diff(k) == Abs(center_lum - LuminanceAt(img, x, y, win[k]))
        d2(k) == win[k][1] * win[k][1] + win[k][2] * win[k][2]
    IN  [high_freq_energy |->
            SeqSum([k \in DOMAIN win |-> IF d2(k) \in {1, 2} THEN diff(k) ELSE 0]),
         low_freq_energy |->
            [k \in DOMAIN win |-> IF d2(k) > 2 THEN diff(k) ELSE 0]]

\* classify_material_enhanced: the prior in 1/100; a metal's prior is 15 or
\* 25 by the variance of the 5x5 window, whose luminances are kept.
classify_material_enhanced(img, x, y) ==
    LET p == get_pixel(img, x, y)
        max == Max3(p[1], p[2], p[3])
        chroma == max - Min3(p[1], p[2], p[3])
        lum == get_luminance(img, x, y)
        \* saturation < n/100, saturation > n/100
        satBelow(n) == IF max > 0 THEN chroma * 100 < n * max ELSE TRUE
        satAbove(n) == max > 0 /\ chroma * 100 > n * max
        \* luminance against n/10
        lumBelow(n) == lum < n * 255000
        lumAbove(n) == lum > n * 255000
    IN  IF satBelow(15) /\ lumAbove(4) /\ lumBelow(9)
        THEN [prior |-> "metal", values |-> WindowValues(img, x, y, 2)]
        ELSE IF satAbove(60)
        THEN [prior |-> 75, values |-> <<>>]
        ELSE IF satAbove(20) /\ satBelow(50) /\ lumAbove(2) /\ lumBelow(7)
        THEN [prior |-> 65, values |-> <<>>]
        ELSE IF satBelow(20) /\ lumBelow(5)
        THEN [prior |-> 80, values |-> <<>>]
        ELSE [prior |-> 50, values |-> <<>>]

\* compute_texture_variance: the 7x7 window the variance is taken of.
compute_texture_variance(img, x, y) == WindowValues(img, x, y, 3)

\* compute_saturation: (max - min) / max, or 0 when max is 0.
compute_saturation(img, x, y) ==
    LET p == get_pixel(img, x, y)
    IN  [chroma |-> Max3(p[1], p[2], p[3]) - Min3(p[1], p[2], p[3]),
         max |-> Max3(p[1], p[2], p[3])]

\* analyze_texture_gradients: |right - left| and |down - up|.
analyze_texture_gradients(img, x, y) ==
    [dx |-> Abs(LuminanceAt(img, x, y, <<1, 0>>) - LuminanceAt(img, x, y, <<-1, 0>>)),
     dy |-> Abs(LuminanceAt(img, x, y, <<0, 1>>) - LuminanceAt(img, x, y, <<0, -1>>))]

\* estimate_specular, in 1/10.
estimate_specular(img, x, y) ==
    LET p == get_pixel(img, x, y)
        chroma == Max3(p[1], p[2], p[3]) - Min3(p[1], p[2], p[3])
        lum == get_luminance(img, x, y)
    IN  IF lum > 7 * 255000 /\ chroma * 100 < 15 * 255 THEN 0
        ELSE IF lum > 4 * 255000 /\ chroma * 10 < 2 * 255 THEN 2
        ELSE 5

\* The closure of RoughnessMapGenerator::generate: the six factors that
\* compute_enhanced_roughness weighs into the pixel.
RoughnessPixel(img, x, y) ==
    [freq |-> analyze_frequency_content(img, x, y),
     material |-> classify_material_enhanced(img, x, y),
     variance |-> compute_texture_variance(img, x, y),
     saturation |-> compute_saturation(img, x, y),
     gradient |-> analyze_texture_gradients(img, x, y),
     specular |-> estimate_specular(img, x, y)]

\* compute_local_variance_gray(image, x, y, 2) > 0.1, with the samples v in
\* 1/255: 25 * sum(v^2) - sum(v)^2 > 0.1 * 25^2 * 255^2.
LocalVarianceHigh(img, x, y) ==
    LET v == [k \in DOMAIN Window(2) |-> Sample(img, x, y, Window(2)[k])]
    IN  10 * (25 * SeqSum([k \in DOMAIN v |-> v[k] * v[k]]) - SeqSum(v) * SeqSum(v))
          > 625 * 255 * 255

\* The closure of edge_aware_smoothing_enhanced: the centre, sigma in
\* 1/100, and the eight neighbours in loop order.
SmoothedPixel(img, x, y) ==
    [center |-> get_pixel(img, x, y)[1],
     sigma |-> IF LocalVarianceHigh(img, x, y) THEN 5 ELSE 15,
     neighbors |-> [k \in 1..8 |->
                      Sample(img, x, y, Window(1)[IF k < 5 THEN k ELSE k + 1])]]

\* The closure of HeightMapGenerator::to_perceptual_luminance:
\* (lum * 255.0) as u8.
LuminancePixel(img, x, y) == <<get_luminance(img, x, y) \div 10000>>

\* The closure of HeightMapGenerator::amplify_image, the factor in 1/100:
\* 127.5 + (val - 127.5) * factor, clamped to 0..255, as u8.
AmplifiedPixel(img, factor, x, y) ==
    <<clamp(25500 + (2 * get_pixel(img, x, y)[1] - 255) * factor, 0, 255 * 200)
        \div 200>>

\* The closure of HeightMapGenerator::guided_filter: the sums over the
\* window, in 1/255 and 1/255^2, and the guide's value at the pixel.
GuidedPixel(input, guide, radius, x, y) ==
    LET win == Window(radius)
        g == [k \in DOMAIN win |-> Sample(guide, x, y, win[k])]
        i == [k \in DOMAIN win |-> Sample(input, x, y, win[k])]
    IN  [sum_guide |-> SeqSum(g),
         sum_input |-> SeqSum(i),
         sum_guide_sq |-> SeqSum([k \in DOMAIN win |-> g[k] * g[k]]),
         sum_guide_input |-> SeqSum([k \in DOMAIN win |-> g[k] * i[k]]),
         count |-> Len(win),
         guide_val |-> get_pixel(guide, x, y)[1]]

\* var_guide = sum_guide_sq / count - mean_guide * mean_guide, in
\* 1/(255 * count)^2
var_guide(sums) == sums.count * sums.sum_guide_sq - sums.sum_guide * sums.sum_guide

\* cov = sum_guide_input / count - mean_guide * mean_input, in 1/(255 * count)^2
cov(sums) == sums.count * sums.sum_guide_input - sums.sum_guide * sums.sum_input

\* epsilon = 0.01 in 1/(255 * count)^2 is 650.25 * count^2: four times that
epsilon4(sums) == 2601 * sums.count * sums.count

\* HeightMapGenerator::adaptive_clahe up to the lookup table.
clip_value(total_pixels) == (25 * total_pixels) \div (10 * 256)

Histogram(img) ==
    [v \in 0..255 |-> Cardinality({i \in DOMAIN img.px : img.px[i][1] = v})]

Clipped(histogram, clip) ==
    SumRange([v \in 0..255 |->
                 IF histogram[v] > clip THEN histogram[v] - clip ELSE 0], 0, 255)

\* *h = clip_value where it was above; then *h += redistribution
Redistributed(histogram, clip, redistribution) ==
    [v \in 0..255 |->
        (IF histogram[v] > clip THEN clip ELSE histogram[v]) + redistribution]

Cdf(histogram) == [i \in 0..255 |-> SumRange(histogram, 0, i)]

CdfMin(cdf) ==
    IF \E i \in 0..255 : cdf[i] > 0
    THEN cdf[CHOOSE i \in 0..255 : cdf[i] > 0 /\ \A j \in 0..(i - 1) : cdf[j] = 0]
    ELSE 0

\* (x / (total - cdf_min) * 255.0) as u8; 0.0 / 0.0 is NaN, and NaN as u8 is 0.
Normalized(x, total_pixels, cdf_min) ==
    IF total_pixels = cdf_min THEN 0
    ELSE clamp((x * 255) \div (total_pixels - cdf_min), 0, 255)

Lookup(img) ==
    LET total_pixels == img.width * img.height
        clip == clip_value(total_pixels)
        histogram == Histogram(img)
        redistribution == Clipped(histogram, clip) \div 256
        limited == Redistributed(histogram, clip, redistribution)
        cdf == Cdf(limited)
        cdf_min == CdfMin(cdf)
    IN  [i \in 0..255 |->
            IF cdf[i] > 0 THEN Normalized(cdf[i] - cdf_min, total_pixels, cdf_min)
            ELSE 0]

\* The closure of adaptive_clahe: lookup[old_value].
EqualizedPixel(img, lookup, x, y) == <<lookup[get_pixel(img, x, y)[1]]>>

\* imageproc::filter::gaussian_blur_f32: an image of the same size; the
\* blurred samples are left open.
gaussian_blur_f32(img) ==
    { GenImage("Luma8", img.width, img.height, s) : s \in 0..MaxSeed }

\* The closure of enhance_details with strength 1.2:
\* original + (original - blur) * 1.2, clamped to 0..255, as u8.
DetailPixel(img, blurred, x, y) ==
    <<clamp(5 * get_pixel(img, x, y)[1]
              + 6 * (get_pixel(img, x, y)[1] - get_pixel(blurred, x, y)[1]),
            0, 255 * 5) \div 5>>

\* The fusion pass of RoughnessMapGenerator::generate run to its end: the
\* factors of every pixel.
FusedFactors(img) ==
    [i \in DOMAIN img.px |-> RoughnessPixel(img, i % img.width, i \div img.width)]

\* Bytes that compute_enhanced_roughness may return.
RoughnessLevels == {50, 200}

\* compute_enhanced_roughness is a function of the six factors: pixels
\* with the same factors get the same byte; which byte is left open.
FusedImages(img, factors) ==
    { [variant |-> "Luma8", width |-> img.width, height |-> img.height,
       px |-> [i \in DOMAIN factors |-> <<f[factors[i]]>>]] :
         f \in [{factors[i] : i \in DOMAIN factors} -> RoughnessLevels] }

\* The pass of edge_aware_smoothing_enhanced run to its end.
SmoothedValues(img) ==
    [i \in DOMAIN img.px |-> SmoothedPixel(img, i % img.width, i \div img.width)]

\* A pass is named after the function that runs it, or after the buffer it
\* fills where that function is generate (normal_map, roughness_map).
PassKinds ==
    {"normal_map", "roughness_map",
     "edge_aware_smoothing_enhanced", "to_perceptual_luminance",
     "amplify_image", "guided_filter", "adaptive_clahe", "enhance_details"}

\* What the closure of a pass captures, given the function's arguments:
\* the buffers it borrows and the values it copies.
Captures(kind, args) ==
    CASE kind = "normal_map" -> { <<to_luma8(args[1])>> }
      [] kind = "roughness_map" -> { <<to_rgba8(args[1])>> }
      [] kind = "to_perceptual_luminance" -> { <<to_rgba8(args[1])>> }
      [] kind = "adaptive_clahe" -> { <<args[1], Lookup(args[1])>> }
      [] kind = "enhance_details" ->
            { <<args[1], blurred>> : blurred \in gaussian_blur_f32(args[1]) }
      [] OTHER -> { args }

\* radius of the guided filter in HeightMapGenerator::generate
guided_radius == 8

\* The widest window of each closure: kernel_radius = ceil(1.5 * 2.0) of
\* compute_structure_tensor, window_size = 5 of analyze_frequency_content,
\* radius 2 of compute_local_variance_gray, and the guided filter's radius.
WindowRadius(kind) ==
    CASE kind = "normal_map" -> 3
      [] kind = "roughness_map" -> 5
      [] kind = "edge_aware_smoothing_enhanced" -> 2
      [] OTHER -> guided_radius

\* The neighbour coordinates the closure of a pass computes for the pixel
\* (x, y): those of its windows and, for the normal map, those of the
\* Scharr kernels at the pixel and at every point of the tensor's window.
Reads(kind, img, x, y) ==
    LET win == Window(WindowRadius(kind))
        own == { Read(img, x, y, win[k]) : k \in DOMAIN win }
    IN  IF kind = "normal_map"
        THEN own \cup { Read(img, x, y, d) : d \in ScharrOffsets }
                 \cup UNION { { Read(img, c.got[1], c.got[2], d) : d \in ScharrOffsets } :
                              c \in own }
        ELSE own

PixelFn(kind, cap, x, y) ==
    CASE kind = "normal_map" -> NormalPixel(cap[1], x, y)
      [] kind = "roughness_map" -> RoughnessPixel(cap[1], x, y)
      [] kind = "edge_aware_smoothing_enhanced" -> SmoothedPixel(cap[1], x, y)
      [] kind = "to_perceptual_luminance" -> LuminancePixel(cap[1], x, y)
      [] kind = "amplify_image" -> AmplifiedPixel(cap[1], cap[2], x, y)
      [] kind = "guided_filter" -> GuidedPixel(cap[1], cap[2], guided_radius, x, y)
      [] kind = "adaptive_clahe" -> EqualizedPixel(cap[1], cap[2], x, y)
      [] OTHER -> DetailPixel(cap[1], cap[2], x, y)

\* ImageBuffer::new(width, height): every pixel zeroed.
Zeroed == [zeroed |-> TRUE]

Workers == 1..NumWorkers

\* The bridged iterator hands out each item once: the cursor moves on.
IterNext_Stuck(cursor) == cursor

IterNext(cursor) == cursor + 1

-----------------------------------------------------------------------------
(* The pipelines of the three generators, on the sizes of the images.  A   *)
(* buffer is read with get_pixel at the coordinates of the buffer being    *)
(* written, which panics when the buffer read is the smaller one.          *)

Shape(width, height) == [width |-> width, height |-> height]

NoShape == Shape(0, 0)

\* The size that stands for a panic of get_pixel inside a step.
IndexPanic == Shape(-1, -1)

\* get_pixel(x, y) on `read` for every x, y of `written` stays in bounds.
InBounds(written, read) ==
    /\ written # IndexPanic /\ read # IndexPanic
    /\ written.width <= read.width /\ written.height <= read.height

\* ImageBuffer::new(width, height) filled from `read`
Filled(written, read) == IF InBounds(written, read) THEN written ELSE IndexPanic

downsample(img) ==
    IF img = IndexPanic THEN IndexPanic
    ELSE IF img.width \div 2 = 0 \/ img.height \div 2 = 0 THEN img
    ELSE Shape(img.width \div 2, img.height \div 2)

upsample_Doubling(img, target_width, target_height) ==
    IF img = IndexPanic THEN IndexPanic
    ELSE Shape(2 * img.width, 2 * img.height)

\* src_x = (x / 2).min(image.width() - 1) is in bounds for every x.
upsample(img, target_width, target_height) ==
    IF img = IndexPanic THEN IndexPanic
    ELSE Shape(target_width, target_height)

subtract_images(a, b) == Filled(a, b)

add_images(a, b) == Filled(a, b)

levels == 3

RECURSIVE build_laplacian_pyramid(_, _)
build_laplacian_pyramid(current_image, n) ==
    IF n = 0 THEN <<current_image>>
    ELSE LET downsampled == downsample(current_image)
             upsampled == upsample(downsampled, current_image.width,
                                   current_image.height)
         IN  <<subtract_images(current_image, upsampled)>>
               \o build_laplacian_pyramid(downsampled, n - 1)

amplify_image(img) == img

enhance_pyramid_levels(p) == [level \in DOMAIN p |-> amplify_image(p[level])]

\* current = pyramid.pop(); while let Some(laplacian) = pyramid.pop() { .. }
RECURSIVE Reconstruct(_, _)
Reconstruct(current_image, p) ==
    IF p = <<>> THEN current_image
    ELSE LET laplacian == p[Len(p)]
             upsampled == upsample(current_image, laplacian.width, laplacian.height)
         IN  Reconstruct(add_images(upsampled, laplacian), SubSeq(p, 1, Len(p) - 1))

reconstruct_from_pyramid(p) == Reconstruct(p[Len(p)], SubSeq(p, 1, Len(p) - 1))

\* The result has the size of `input`; input and guide are read at its
\* clamped coordinates.
guided_filter(input, guide) == Filled(input, guide)

adaptive_clahe(img) == img

enhance_details(img) == Filled(img, img)

edge_aware_smoothing_enhanced(img) == img

GenOps ==
    {"HeightMapGenerator::generate", "NormalMapGenerator::generate",
     "RoughnessMapGenerator::generate"}

FirstStep(gen) ==
    CASE gen = "HeightMapGenerator::generate" -> "to_perceptual_luminance"
      [] gen = "NormalMapGenerator::generate" -> "to_luma8"
      [] OTHER -> "to_rgba8"

-----------------------------------------------------------------------------
(* TextureGenerator::generate_maps.  The VarDictionary it returns is a      *)
(* function from the keys inserted so far to their values; a text built by  *)
(* format! is the sequence of its parts, so the empty string is <<>>.       *)

insert(dict, key, value) ==
    [k \in DOMAIN dict \cup {key} |-> IF k = key THEN value ELSE dict[k]]

\* result.insert("success", false); ("error", ""); ("progress", 0)
NewRecord == insert(insert(insert(<<>>, "success", FALSE), "error", <<>>), "progress", 0)

LoadErrors == {"NotFound", "Unsupported"}

\* load_image: image::open(..).map_err(..)
LoadOutcomes == {[ok |-> TRUE, cause |-> ""]} \cup {[ok |-> FALSE, cause |-> c] : c \in LoadErrors}

SaveOutcomes == {[ok |-> TRUE, cause |-> ""]} \cup {[ok |-> FALSE, cause |-> c] : c \in Causes}

\* if output_str.is_empty() { parent of the albedo path } else { output_dir }
OutputPath(path, dir) == IF dir = "" THEN path.parent ELSE dir

\* output_path.join(format!("{}_<map>.png", stem))
MapPath(path, dir, map) == <<OutputPath(path, dir), path.stem, "_", map, ".png">>

MapNames == <<"height", "normal", "roughness">>

\* The inserts after the last save succeeded, without the one of progress.
Succeeded_ProgressKept(dict, path, dir) ==
    insert(insert(insert(insert(dict, "success", TRUE),
        "height_path", MapPath(path, dir, "height")),
        "normal_path", MapPath(path, dir, "normal")),
        "roughness_path", MapPath(path, dir, "roughness"))

\* The inserts after the last save succeeded.
Succeeded(dict, path, dir) ==
    insert(insert(insert(insert(insert(dict, "success", TRUE), "progress", 100),
        "height_path", MapPath(path, dir, "height")),
        "normal_path", MapPath(path, dir, "normal")),
        "roughness_path", MapPath(path, dir, "roughness"))

\* A generated image: which generator made it, and from which buffer.
Generated(map, from) == [map |-> map, from |-> from]

NotGenerated == Generated("none", "none")

\* The buffer NormalMapGenerator::generate is given in the second closure.
NormalInput_OtherTask == "height_map"

NormalInput == "height"

\* rayon::join returns when both closures have returned.
JoinReady_EitherDone(t) == t.a = "done" \/ t.b = "done"

JoinReady(t) == t.a = "done" /\ t.b = "done"

\* The step generate_maps takes after a save: on Err it inserts the error
\* and returns.
AfterSave_KeepGoing(ok, next) == next

AfterSave(ok, next) == IF ok THEN next ELSE "returned"

SaveError(map, cause) == <<"Failed to save ", map, " map: ", cause>>

\* DynamicImage::save: on success the file is complete; on failure nothing
\* or a part of it may be left at the path.
DiskAfterSave(files, map, ok) ==
    IF ok THEN { [files EXCEPT ![map] = "complete"] }
    ELSE { [files EXCEPT ![map] = "partial"], files }

NoFiles == [map \in {"height", "normal", "roughness"} |-> "absent"]

NoBuffers ==
    [b \in {"height_map", "height", "normal_map", "roughness"} |-> NotGenerated]

Access(who, buffer, mode) == [who |-> who, buffer |-> buffer, mode |-> mode]

-----------------------------------------------------------------------------
(* The Laplacian pyramid of HeightMapGenerator on the pixels.              *)

GrayImage(width, height, px) ==
    [variant |-> "Luma8", width |-> width, height |-> height, px |-> px]

\* imageproc::filter::gaussian_blur_f32 of an image whose pixels all have
\* one value v: every pixel is the same normalised weighted sum of v, which
\* rounds to v or to a level next to it.
BlurredFlat(img) ==
    LET v == img.px[0][1]
    IN  { GrayImage(img.width, img.height,
                    [i \in DOMAIN img.px |-> <<clamp(v + d, 0, 255)>>]) :
            d \in {-1, 0, 1} }

\* The size downsample gives its result, halving each side that can be.
HalfSize_EachSide(img) ==
    <<IF img.width \div 2 = 0 THEN img.width ELSE img.width \div 2,
      IF img.height \div 2 = 0 THEN img.height ELSE img.height \div 2>>

\* width = image.width() / 2, height = image.height() / 2; the image itself
\* is returned when one of them is 0.
HalfSize(img) ==
    IF img.width \div 2 = 0 \/ img.height \div 2 = 0
    THEN <<img.width, img.height>>
    ELSE <<img.width \div 2, img.height \div 2>>

\* result.put_pixel(x, y, *blurred.get_pixel(x * 2, y * 2))
Subsampled(blurred, width, height) ==
    GrayImage(width, height,
        [i \in 0..(width * height - 1) |->
            get_pixel(blurred, 2 * (i % width), 2 * (i \div width))])

\* downsample: the clone, or the blurred image subsampled
Downsampled(img) ==
    LET size == HalfSize(img)
    IN  IF size = dimensions(img) THEN {img}
        ELSE { Subsampled(blurred, size[1], size[2]) : blurred \in BlurredFlat(img) }

\* src_x = (x / 2).min(image.width() - 1), src_y likewise
UpsampleRead(img, x, y) ==
    [want |-> <<x \div 2, y \div 2>>,
     got |-> <<IF x \div 2 < img.width - 1 THEN x \div 2 ELSE img.width - 1,
               IF y \div 2 < img.height - 1 THEN y \div 2 ELSE img.height - 1>>]

\* result.put_pixel(x, y, *image.get_pixel(src_x, src_y))
Expanded(img, target_width, target_height) ==
    GrayImage(target_width, target_height,
        [i \in 0..(target_width * target_height - 1) |->
            LET src == UpsampleRead(img, i % target_width, i \div target_width).got
            IN  get_pixel(img, src[1], src[2])])

\* upsample: the expanded image blurred
Upsampled(img, target_width, target_height) ==
    BlurredFlat(Expanded(img, target_width, target_height))

\* ((val_a - val_b + 255) / 2).clamp(0, 255) as u8
Subtracted(a, b) ==
    GrayImage(a.width, a.height,
        [i \in DOMAIN a.px |-> <<clamp((a.px[i][1] - b.px[i][1] + 255) \div 2, 0, 255)>>])

\* (val_a + val_b).min(255) as u8
Added(a, b) ==
    GrayImage(a.width, a.height,
        [i \in DOMAIN a.px |->
            <<IF a.px[i][1] + b.px[i][1] < 255 THEN a.px[i][1] + b.px[i][1] ELSE 255>>])

\* boost = 1.0 + (level as f32 * 0.15), in 1/100
Boost(level) == 100 + 15 * level

Amplified(img, factor) ==
    GrayImage(img.width, img.height,
        [i \in DOMAIN img.px |->
            AmplifiedPixel(img, factor, i % img.width, i \div img.width)])

\* pyramid.push(current)
WithResidual_Dropped(p, residual) == p

WithResidual(p, residual) == Append(p, residual)

-----------------------------------------------------------------------------
(* Inputs.                                                                 *)

Dims == (0..MaxDim) \cup LargeDims

PackSides == 1..MaxPackDim

RgbSources ==
    { GenImage(v, w, h, s) :
        v \in Variants, w \in PackSides, h \in PackSides, s \in 0..MaxSeed }

\* Alpha sources of the same size as the RGB source, and of another size.
AlphaSources(rgb) ==
    { GenImage(v, d[1], d[2], s) :
        v \in Variants, d \in {dimensions(rgb), <<2, 3>>}, s \in 0..MaxSeed }

\* Widths and heights of the images given to generate.
GenSides == 1..MaxGenDim

\* Albedo paths as parent directory and file stem, and output directories.
Path(parent, stem) == [parent |-> parent, stem |-> stem]

NoPath == Path("", "")

AlbedoPaths == {Path("textures", "wood"), Path("", "rock")}

OutputDirs == {"", "out"}

\* An image whose pixels all have one colour.
FlatImage(variant, w, h, colour) ==
    [variant |-> variant, width |-> w, height |-> h,
     px |-> [i \in 0..(w * h - 1) |->
               CASE variant = "Luma8" -> <<colour[1]>>
                 [] variant = "Rgb8" -> colour
                 [] OTHER -> colour \o <<255>>]]

FlatShapes == PassShapes \cup {<<3, 3>>, <<4, 3>>}

FlatColours == {<<128, 128, 128>>, <<0, 0, 0>>, <<200, 30, 30>>, <<255, 255, 255>>}

\* The albedos whose pixels are followed through RoughnessMapGenerator.
RoughnessAlbedos ==
    { FlatImage(v, d[1], d[2], c) :
        v \in {"Luma8", "Rgb8"}, d \in FlatShapes, c \in FlatColours }
    \cup { GenImage("Rgb8", d[1], d[2], s) : d \in PassShapes, s \in 0..MaxSeed }

GrayImages ==
    { GenImage("Luma8", d[1], d[2], s) : d \in PassShapes, s \in 0..MaxSeed }

\* boost = 1.0 + level * 0.15 for the four levels of the pyramid, in 1/100
Factors == { 100 + 15 * level : level \in 0..3 }

\* The images a pyramid is built from: one gray level at every pixel.
PyramidShapes == {<<1, 1>>, <<1, 4>>, <<2, 2>>, <<3, 2>>, <<4, 4>>, <<5, 3>>, <<8, 8>>}

PyramidLevels == {0, 100, 128, 255}

PyramidImages ==
    { FlatImage("Luma8", d[1], d[2], <<v, v, v>>) :
        d \in PyramidShapes, v \in PyramidLevels }

\* The images adaptive_clahe counts: of 4, 110 and 256 pixels.
ClaheShapes == {<<2, 2>>, <<11, 10>>, <<16, 16>>}

ClaheImages ==
    { FlatImage("Luma8", d[1], d[2], <<v, v, v>>) :
        d \in ClaheShapes, v \in PyramidLevels }
    \cup { GenImage("Luma8", d[1], d[2], s) : d \in ClaheShapes, s \in 0..MaxSeed }

\* Images given to guided_filter as input and as guide at once: one flat,
\* one checkered, one graded, one of a single pixel.
SelfGuidedImages ==
    { GrayImage(2, 2, [i \in 0..3 |-> <<128>>]),
      GrayImage(2, 2, [i \in 0..3 |-> IF i \in {0, 3} THEN <<100>> ELSE <<130>>]),
      GrayImage(3, 2, [i \in 0..5 |-> <<100 + 5 * i>>]),
      GrayImage(1, 1, [i \in 0..0 |-> <<77>>]) }

\* The arguments of the function that runs a pass.
PassArgs(kind) ==
    CASE kind \in {"normal_map", "roughness_map",
                   "to_perceptual_luminance"} ->
            { <<GenImage(v, d[1], d[2], s)>> :
                v \in Variants, d \in PassShapes, s \in 0..MaxSeed }
      [] kind = "amplify_image" ->
            { <<img, factor>> : img \in GrayImages, factor \in Factors }
      [] kind = "guided_filter" ->
            { a \in GrayImages \X GrayImages : dimensions(a[1]) = dimensions(a[2]) }
              \cup { <<img, img>> : img \in SelfGuidedImages }
      [] OTHER -> { <<img>> : img \in GrayImages }

-----------------------------------------------------------------------------
(* Init and the actions.                                                   *)

Init ==
    /\ pc = "idle"
    /\ op = "none"
    /\ rgb_source = NoImage
    /\ alpha_source = NoImage
    /\ packed = NoImage
    /\ image = [width |-> 0, height |-> 0]
    /\ compressed = W(0)
    /\ compress_calls = 0
    /\ dds_data = EmptyVec
    /\ fs0 = Absent
    /\ fs = Absent
    /\ io_log = <<>>
    /\ result = NoResult
    /\ pass_arg = <<NoImage>>
    /\ pass_in = <<NoImage>>
    /\ pass_out = <<>>
    /\ pass_cursor = 0
    /\ pass_held = <<>>
    /\ pass_writes = <<>>
    /\ albedo = NoShape
    /\ gray = NoShape
    /\ pyramid = <<>>
    /\ current = NoShape
    /\ source = NoImage
    /\ rgba = NoImage
    /\ fused = <<>>
    /\ roughness_map = NoImage
    /\ smoothed = <<>>
    /\ albedo_path = NoPath
    /\ output_dir = ""
    /\ record = <<>>
    /\ tasks = [a |-> "idle", b |-> "idle"]
    /\ buffers = NoBuffers
    /\ accesses = {}
    /\ disk = NoFiles
    /\ save_log = <<>>
    /\ lp_image = NoImage
    /\ lp_levels = 0
    /\ lp_working = <<>>
    /\ lp_pyramid = <<>>
    /\ lp_boost = <<>>
    /\ lp_current = NoImage
    /\ clahe_image = NoImage
    /\ clahe_histogram = <<>>
    /\ clahe_clipped = 0
    /\ clahe_cdf = <<>>

\* What the output path named by a call may hold when the call is made.
PathStates(entry) ==
    IF entry = "pack_rgba" THEN {Absent} ELSE {Absent, OldFile}

\* A caller invokes ChannelPacker::save_as_dds(image, output_path).
CallSaveAsDds(width, height) ==
    /\ pc = "idle"
    /\ op' = "save_as_dds"
    /\ image' = [width |-> width, height |-> height]
    /\ fs0' \in PathStates("save_as_dds")
    /\ fs' = fs0'
    /\ pc' = "dims_check"
    /\ UNCHANGED <<rgb_source, alpha_source, packed, compressed, compress_calls,
                   dds_data, io_log, result>>
    /\ UNCHANGED <<passVars, genVars, texVars, mapsVars, lpVars, claheVars>>

\* A caller invokes pack_rgba or pack_and_save_dds.
CallPack(entry, rgb, alpha) ==
    /\ pc = "idle"
    /\ op' = entry
    /\ rgb_source' = rgb
    /\ alpha_source' = alpha
    /\ fs0' \in PathStates(entry)
    /\ fs' = fs0'
    /\ pc' = "pack"
    /\ UNCHANGED <<packed, image, compressed, compress_calls, dds_data,
                   io_log, result>>
    /\ UNCHANGED <<passVars, genVars, texVars, mapsVars, lpVars, claheVars>>

\* pack_rgba runs to its return; pack_and_save_dds hands the packed image on.
PackRgba ==
    /\ pc = "pack"
    /\ \E alpha_resized \in AlphaResized(rgb_source, alpha_source) :
          packed' = pack_rgba(rgb_source, alpha_resized)
    /\ IF op = "pack_rgba"
       THEN /\ pc' = "returned"
            /\ result' = ImageResult
            /\ image' = image
       ELSE /\ pc' = "dims_check"
            /\ result' = result
            /\ image' = [width |-> packed'.width, height |-> packed'.height]
    /\ UNCHANGED <<op, rgb_source, alpha_source, compressed, compress_calls,
                   dds_data, fs, fs0, io_log>>
    /\ UNCHANGED <<passVars, genVars, texVars, mapsVars, lpVars, claheVars>>

\* Lines 46-54.
DimsCheck ==
    /\ pc = "dims_check"
    /\ IF DimensionsRejected(image.width, image.height)
       THEN /\ result' = DimensionError(image.width, image.height)
            /\ pc' = "returned"
       ELSE /\ result' = result
            /\ pc' = "compress"
    /\ UNCHANGED <<op, rgb_source, alpha_source, packed, image, compressed,
                   compress_calls, dds_data, fs, fs0, io_log>>
    /\ UNCHANGED <<passVars, genVars, texVars, mapsVars, lpVars, claheVars>>

\* Lines 56-71: the output buffer is allocated and texpresso fills it.
Compress ==
    /\ pc = "compress"
    /\ compressed' = CompressedLen(block_count(image.width, image.height))
    /\ compress_calls' = compress_calls + 1
    /\ pc' = "serialize"
    /\ UNCHANGED <<op, rgb_source, alpha_source, packed, image, dds_data, fs, fs0,
                   io_log, result>>
    /\ UNCHANGED <<passVars, genVars, texVars, mapsVars, lpVars, claheVars>>

\* Lines 73-132.  The u32 product of line 82 panics in a build with overflow
\* checks and wraps in one without.
Serialize ==
    /\ pc = "serialize"
    /\ LET product == LinearSizeProduct(block_count(image.width, image.height))
       IN  \E overflow_checks \in BOOLEAN :
              IF FitsU32(product) \/ ~overflow_checks
              THEN /\ dds_data' = SerializeRecord(image.width, image.height,
                                                  WrapU32(product), compressed)
                   /\ pc' = "create"
                   /\ result' = result
              ELSE /\ dds_data' = dds_data
                   /\ pc' = "returned"
                   /\ result' = Panic
    /\ UNCHANGED <<op, rgb_source, alpha_source, packed, image, compressed,
                   compress_calls, fs, fs0, io_log>>
    /\ UNCHANGED <<passVars, genVars, texVars, mapsVars, lpVars, claheVars>>

\* Lines 135-137: File::create makes the file or truncates the one there.
CreateFile ==
    /\ pc = "create"
    /\ \E ok \in BOOLEAN, cause \in Causes :
          /\ fs' = IF ok THEN File(TRUE, EmptyVec) ELSE fs
          /\ io_log' = Logged("create", ok, cause)
          /\ result' = StepResult("create", ok, cause)
          /\ pc' = AfterStep("create", ok)
    /\ UNCHANGED <<op, rgb_source, alpha_source, packed, image, compressed,
                   compress_calls, dds_data, fs0>>
    /\ UNCHANGED <<passVars, genVars, texVars, mapsVars, lpVars, claheVars>>

\* Lines 139-140: BufWriter::write_all.  On success a prefix has reached the
\* file and the rest is buffered; on failure some prefix has reached it.
WriteAll ==
    /\ pc = "write"
    /\ \E ok \in BOOLEAN, cause \in Causes, data \in Prefixes(dds_data) :
          /\ fs' = File(TRUE, data)
          /\ io_log' = Logged("write", ok, cause)
          /\ result' = StepResult("write", ok, cause)
          /\ pc' = AfterStep("write", ok)
    /\ UNCHANGED <<op, rgb_source, alpha_source, packed, image, compressed,
                   compress_calls, dds_data, fs0>>
    /\ UNCHANGED <<passVars, genVars, texVars, mapsVars, lpVars, claheVars>>

\* Lines 142-145: BufWriter::flush, then Ok(()).
Flush ==
    /\ pc = "flush"
    /\ \E ok \in BOOLEAN, cause \in Causes, data \in Prefixes(dds_data) :
          /\ Extends(data, fs.data)
          /\ ok => data = dds_data
          /\ fs' = File(TRUE, data)
          /\ io_log' = Logged("flush", ok, cause)
          /\ result' = StepResult("flush", ok, cause)
          /\ pc' = AfterStep("flush", ok)
    /\ UNCHANGED <<op, rgb_source, alpha_source, packed, image, compressed,
                   compress_calls, dds_data, fs0>>
    /\ UNCHANGED <<passVars, genVars, texVars, mapsVars, lpVars, claheVars>>

\* A caller invokes a function that fills its result in a per-pixel pass:
\* what the closure captures is prepared, the output buffer allocated, and
\* the items of enumerate_pixels_mut() are bridged to the pool.
CallPass(kind, args) ==
    /\ pc = "idle"
    /\ op' = kind
    /\ pass_arg' = args
    /\ pass_in' \in Captures(kind, args)
    /\ pass_out' = [i \in 0..(args[1].width * args[1].height - 1) |-> Zeroed]
    /\ pass_writes' = [i \in 0..(args[1].width * args[1].height - 1) |-> 0]
    /\ pass_cursor' = 0
    /\ pass_held' = [w \in Workers |-> -1]
    /\ pc' = "pass"
    /\ UNCHANGED <<rgb_source, alpha_source, packed, image, compressed,
                   compress_calls, dds_data, fs, fs0, io_log, result>>
    /\ UNCHANGED <<genVars, texVars, mapsVars, lpVars, claheVars>>

\* A free worker takes the next item (x, y, &mut pixel) from the iterator.
TakeItem(w) ==
    /\ pc = "pass"
    /\ pass_held[w] = -1
    /\ pass_cursor < pass_in[1].width * pass_in[1].height
    /\ pass_held' = [pass_held EXCEPT ![w] = pass_cursor]
    /\ pass_cursor' = IterNext(pass_cursor)
    /\ UNCHANGED <<pc, op, rgb_source, alpha_source, packed, image, compressed,
                   compress_calls, dds_data, fs, fs0, io_log, result,
                   pass_arg, pass_in, pass_out, pass_writes>>
    /\ UNCHANGED <<genVars, texVars, mapsVars, lpVars, claheVars>>

\* The worker runs the closure on its item: reads of the borrowed input,
\* one write through the item's &mut pixel.
RunClosure(w) ==
    /\ pc = "pass"
    /\ pass_held[w] # -1
    /\ LET i == pass_held[w]
       IN  /\ pass_out' = [pass_out EXCEPT ![i] =
                 PixelFn(op, pass_in, i % pass_in[1].width, i \div pass_in[1].width)]
           /\ pass_writes' = [pass_writes EXCEPT ![i] = @ + 1]
    /\ pass_held' = [pass_held EXCEPT ![w] = -1]
    /\ UNCHANGED <<pc, op, rgb_source, alpha_source, packed, image, compressed,
                   compress_calls, dds_data, fs, fs0, io_log, result,
                   pass_arg, pass_in, pass_cursor>>
    /\ UNCHANGED <<genVars, texVars, mapsVars, lpVars, claheVars>>

\* for_each returns when the iterator is exhausted and every worker is done.
PassDone ==
    /\ pc = "pass"
    /\ pass_cursor >= pass_in[1].width * pass_in[1].height
    /\ \A w \in Workers : pass_held[w] = -1
    /\ result' = ImageResult
    /\ pc' = "returned"
    /\ UNCHANGED <<op, rgb_source, alpha_source, packed, image, compressed,
                   compress_calls, dds_data, fs, fs0, io_log, passVars>>
    /\ UNCHANGED <<genVars, texVars, mapsVars, lpVars, claheVars>>

\* A caller invokes generate of one of the three generators.
CallGenerate(gen, width, height) ==
    /\ pc = "idle"
    /\ op' = gen
    /\ albedo' = Shape(width, height)
    /\ pc' = FirstStep(gen)
    /\ UNCHANGED <<gray, pyramid, current, result>>
    /\ UNCHANGED <<packerVars, passVars, texVars, mapsVars, lpVars, claheVars>>

\* A step that leaves an image goes on to the next step; a panic inside
\* it unwinds out of generate.
Continue(img, next) ==
    IF img = IndexPanic
    THEN pc' = "returned" /\ result' = IndexPanicResult
    ELSE pc' = next /\ UNCHANGED result

\* Step 1: let gray = Self::to_perceptual_luminance(albedo)
ToPerceptualLuminance ==
    /\ pc = "to_perceptual_luminance"
    /\ gray' = albedo
    /\ current' = albedo
    /\ pc' = "build_laplacian_pyramid"
    /\ UNCHANGED <<op, albedo, pyramid, result, packerVars, passVars, texVars, mapsVars, lpVars, claheVars>>

\* Step 2: let pyramid = Self::build_laplacian_pyramid(&gray, 3)
BuildLaplacianPyramid ==
    /\ pc = "build_laplacian_pyramid"
    /\ pyramid' = build_laplacian_pyramid(gray, levels)
    /\ IF \E k \in DOMAIN pyramid' : pyramid'[k] = IndexPanic
       THEN Continue(IndexPanic, "enhance_pyramid_levels")
       ELSE Continue(gray, "enhance_pyramid_levels")
    /\ UNCHANGED <<op, albedo, gray, current, packerVars, passVars, texVars, mapsVars, lpVars, claheVars>>

\* Step 3: let enhanced_pyramid = Self::enhance_pyramid_levels(pyramid)
EnhancePyramidLevels ==
    /\ pc = "enhance_pyramid_levels"
    /\ pyramid' = enhance_pyramid_levels(pyramid)
    /\ pc' = "reconstruct_from_pyramid"
    /\ UNCHANGED <<op, albedo, gray, current, result, packerVars, passVars, texVars, mapsVars, lpVars, claheVars>>

\* Step 4: let combined = Self::reconstruct_from_pyramid(enhanced_pyramid)
ReconstructFromPyramid ==
    /\ pc = "reconstruct_from_pyramid"
    /\ current' = reconstruct_from_pyramid(pyramid)
    /\ pyramid' = <<>>
    /\ Continue(current', "guided_filter")
    /\ UNCHANGED <<op, albedo, gray, packerVars, passVars, texVars, mapsVars, lpVars, claheVars>>

\* Step 5: let smoothed = Self::guided_filter(&combined, &gray, 8, 0.01)
GuidedFilter ==
    /\ pc = "guided_filter"
    /\ current' = guided_filter(current, gray)
    /\ Continue(current', "adaptive_clahe")
    /\ UNCHANGED <<op, albedo, gray, pyramid, packerVars, passVars, texVars, mapsVars, lpVars, claheVars>>

\* Step 6: let enhanced = Self::adaptive_clahe(&smoothed, 8, 2.5)
AdaptiveClahe ==
    /\ pc = "adaptive_clahe"
    /\ current' = adaptive_clahe(current)
    /\ pc' = "enhance_details"
    /\ UNCHANGED <<op, albedo, gray, pyramid, result, packerVars, passVars, texVars, mapsVars, lpVars, claheVars>>

\* Step 7: enhance_details, and DynamicImage::ImageLuma8(final_result)
EnhanceDetails ==
    /\ pc = "enhance_details"
    /\ current' = enhance_details(current)
    /\ pc' = "returned"
    /\ result' = IF current' = IndexPanic THEN IndexPanicResult
                 ELSE ImageOf(current')
    /\ UNCHANGED <<op, albedo, gray, pyramid, packerVars, passVars, texVars, mapsVars, lpVars, claheVars>>

\* NormalMapGenerator::generate: let height_gray = height_map.to_luma8()
ToLuma8 ==
    /\ pc = "to_luma8"
    /\ gray' = albedo
    /\ pc' = "normal_pass"
    /\ UNCHANGED <<op, albedo, pyramid, current, result, packerVars, passVars, texVars, mapsVars, lpVars, claheVars>>

\* the pass over ImageBuffer::new(width, height), and ImageRgb8(normal_map)
NormalPass ==
    /\ pc = "normal_pass"
    /\ current' = Filled(Shape(gray.width, gray.height), gray)
    /\ pc' = "returned"
    /\ result' = ImageOf(current')
    /\ UNCHANGED <<op, albedo, gray, pyramid, packerVars, passVars, texVars, mapsVars, lpVars, claheVars>>

\* A caller invokes RoughnessMapGenerator::generate on an albedo whose
\* pixels are followed through the pipeline.
CallRoughnessGenerate(img) ==
    /\ pc = "idle"
    /\ op' = "RoughnessMapGenerator::generate"
    /\ albedo' = Shape(img.width, img.height)
    /\ source' = img
    /\ pc' = "to_rgba8"
    /\ UNCHANGED <<gray, pyramid, current, result>>
    /\ UNCHANGED <<rgba, fused, roughness_map, smoothed>>
    /\ UNCHANGED <<packerVars, passVars, mapsVars, lpVars, claheVars>>

\* RoughnessMapGenerator::generate: let rgba = albedo.to_rgba8()
ToRgba8 ==
    /\ pc = "to_rgba8"
    /\ gray' = albedo
    /\ rgba' = to_rgba8(source)
    /\ pc' = "roughness_pass"
    /\ UNCHANGED <<op, albedo, pyramid, current, result, packerVars, passVars>>
    /\ UNCHANGED <<source, fused, roughness_map, smoothed, mapsVars, lpVars, claheVars>>

\* the fusion pass over ImageBuffer::new(width, height): every pixel gets
\* compute_enhanced_roughness of its six factors
RoughnessPass ==
    /\ pc = "roughness_pass"
    /\ current' = Filled(Shape(gray.width, gray.height), gray)
    /\ fused' = FusedFactors(rgba)
    /\ roughness_map' \in FusedImages(rgba, fused')
    /\ pc' = "edge_aware_smoothing_enhanced"
    /\ UNCHANGED <<op, albedo, gray, pyramid, result, packerVars, passVars>>
    /\ UNCHANGED <<source, rgba, smoothed, mapsVars, lpVars, claheVars>>

\* edge_aware_smoothing_enhanced(&roughness_map), and ImageLuma8(smoothed)
EdgeAwareSmoothing ==
    /\ pc = "edge_aware_smoothing_enhanced"
    /\ current' = edge_aware_smoothing_enhanced(current)
    /\ smoothed' = SmoothedValues(roughness_map)
    /\ pc' = "returned"
    /\ result' = ImageOf(current')
    /\ UNCHANGED <<op, albedo, gray, pyramid, packerVars, passVars>>
    /\ UNCHANGED <<source, rgba, fused, roughness_map, mapsVars, lpVars, claheVars>>

\* A caller invokes generate_maps(albedo_path, output_dir): the record is
\* created with success, error and progress.
CallGenerateMaps(path, dir) ==
    /\ pc = "idle"
    /\ op' = "generate_maps"
    /\ albedo_path' = path
    /\ output_dir' = dir
    /\ record' = NewRecord
    /\ pc' = "load_image"
    /\ UNCHANGED <<result, tasks, buffers, accesses, disk, save_log>>
    /\ UNCHANGED <<packerVars, passVars, genVars, texVars, lpVars, claheVars>>

\* load_image: on Err the error is inserted and the record returned; on Ok
\* progress becomes 10, the albedo is cloned and rayon::join is entered.
LoadImage ==
    /\ pc = "load_image"
    /\ \E outcome \in LoadOutcomes :
          IF outcome.ok
          THEN /\ record' = insert(record, "progress", 10)
               /\ tasks' = [a |-> "ready", b |-> "ready"]
               /\ pc' = "join"
               /\ UNCHANGED result
          ELSE /\ record' = insert(record, "error",
                                   <<"Failed to load image: ", outcome.cause>>)
               /\ pc' = "returned"
               /\ result' = DictionaryResult
               /\ UNCHANGED tasks
    /\ UNCHANGED <<op, albedo_path, output_dir, buffers, accesses, disk, save_log>>
    /\ UNCHANGED <<packerVars, passVars, genVars, texVars, lpVars, claheVars>>

\* First closure: HeightMapGenerator::generate(&albedo_image) starts ...
HeightTaskBegin ==
    /\ tasks.a = "ready"
    /\ tasks' = [tasks EXCEPT !.a = "generating"]
    /\ accesses' = accesses \cup {Access("a", "albedo_image", "read")}
    /\ UNCHANGED <<pc, op, result, albedo_path, output_dir, record, buffers, disk, save_log>>
    /\ UNCHANGED <<packerVars, passVars, genVars, texVars, lpVars, claheVars>>

\* ... and returns height_map.
HeightTaskEnd ==
    /\ tasks.a = "generating"
    /\ tasks' = [tasks EXCEPT !.a = "done"]
    /\ buffers' = [buffers EXCEPT !["height_map"] = Generated("height", "albedo_image")]
    /\ accesses' = accesses \cup {Access("a", "height_map", "write")}
    /\ UNCHANGED <<pc, op, result, albedo_path, output_dir, record, disk, save_log>>
    /\ UNCHANGED <<packerVars, passVars, genVars, texVars, lpVars, claheVars>>

\* Second closure: let height = HeightMapGenerator::generate(&albedo_clone)
NormalTaskBegin ==
    /\ tasks.b = "ready"
    /\ tasks' = [tasks EXCEPT !.b = "generating_height"]
    /\ accesses' = accesses \cup {Access("b", "albedo_clone", "read")}
    /\ UNCHANGED <<pc, op, result, albedo_path, output_dir, record, buffers, disk, save_log>>
    /\ UNCHANGED <<packerVars, passVars, genVars, texVars, lpVars, claheVars>>

NormalTaskHeight ==
    /\ tasks.b = "generating_height"
    /\ tasks' = [tasks EXCEPT !.b = "generating_normal"]
    /\ buffers' = [buffers EXCEPT !["height"] = Generated("height", "albedo_clone")]
    /\ accesses' = accesses \cup {Access("b", "height", "write"),
                                  Access("b", NormalInput, "read")}
    /\ UNCHANGED <<pc, op, result, albedo_path, output_dir, record, disk, save_log>>
    /\ UNCHANGED <<packerVars, passVars, genVars, texVars, lpVars, claheVars>>

\* NormalMapGenerator::generate(&height) returns normal_map.
NormalTaskEnd ==
    /\ tasks.b = "generating_normal"
    /\ tasks' = [tasks EXCEPT !.b = "done"]
    /\ buffers' = [buffers EXCEPT !["normal_map"] =
                      Generated("normal", buffers[NormalInput])]
    /\ accesses' = accesses \cup {Access("b", "normal_map", "write")}
    /\ UNCHANGED <<pc, op, result, albedo_path, output_dir, record, disk, save_log>>
    /\ UNCHANGED <<packerVars, passVars, genVars, texVars, lpVars, claheVars>>

\* rayon::join returns; RoughnessMapGenerator::generate(&albedo_image)
\* starts on the calling thread.
Join ==
    /\ pc = "join"
    /\ JoinReady(tasks)
    /\ pc' = "roughness"
    /\ accesses' = accesses \cup {Access("main", "albedo_image", "read")}
    /\ UNCHANGED <<op, result, albedo_path, output_dir, record, tasks, buffers, disk, save_log>>
    /\ UNCHANGED <<packerVars, passVars, genVars, texVars, lpVars, claheVars>>

\* The roughness map is returned; progress becomes 70 and the three output
\* paths are built.
GenerateRoughness ==
    /\ pc = "roughness"
    /\ buffers' = [buffers EXCEPT !["roughness"] = Generated("roughness", "albedo_image")]
    /\ accesses' = accesses \cup {Access("main", "roughness", "write")}
    /\ record' = insert(record, "progress", 70)
    /\ pc' = "save_height"
    /\ UNCHANGED <<op, result, albedo_path, output_dir, tasks, disk, save_log>>
    /\ UNCHANGED <<packerVars, passVars, genVars, texVars, lpVars, claheVars>>

\* One save: if let Err(e) = <map>.save(&<map>_path) { insert error; return }
Save(map, next) ==
    \E outcome \in SaveOutcomes :
        /\ disk' \in DiskAfterSave(disk, map, outcome.ok)
        /\ save_log' = Append(save_log, [map |-> map, ok |-> outcome.ok,
                                          cause |-> outcome.cause])
        /\ pc' = AfterSave(outcome.ok, next)
        /\ IF outcome.ok
           THEN IF pc' = "returned"
                THEN /\ record' = Succeeded(record, albedo_path, output_dir)
                     /\ result' = DictionaryResult
                ELSE UNCHANGED <<record, result>>
           ELSE /\ record' = insert(record, "error", SaveError(map, outcome.cause))
                /\ result' = IF pc' = "returned" THEN DictionaryResult ELSE result

SaveHeight ==
    /\ pc = "save_height"
    /\ Save("height", "save_normal")
    /\ UNCHANGED <<op, albedo_path, output_dir, tasks, buffers, accesses>>
    /\ UNCHANGED <<packerVars, passVars, genVars, texVars, lpVars, claheVars>>

SaveNormal ==
    /\ pc = "save_normal"
    /\ Save("normal", "save_roughness")
    /\ UNCHANGED <<op, albedo_path, output_dir, tasks, buffers, accesses>>
    /\ UNCHANGED <<packerVars, passVars, genVars, texVars, lpVars, claheVars>>

\* The last save; on Ok success, progress 100 and the three paths are
\* inserted and the record returned.
SaveRoughness ==
    /\ pc = "save_roughness"
    /\ Save("roughness", "returned")
    /\ UNCHANGED <<op, albedo_path, output_dir, tasks, buffers, accesses>>
    /\ UNCHANGED <<packerVars, passVars, genVars, texVars, lpVars, claheVars>>

\* A caller builds the Laplacian pyramid of an image with n levels.
CallBuildLaplacianPyramid(img, n) ==
    /\ pc = "idle"
    /\ op' = "build_laplacian_pyramid"
    /\ lp_image' = img
    /\ lp_levels' = n
    /\ lp_working' = <<img>>
    /\ pc' = "lp_level"
    /\ UNCHANGED <<lp_pyramid, lp_boost, lp_current, result>>
    /\ UNCHANGED <<packerVars, passVars, genVars, texVars, mapsVars, claheVars>>

\* One round of `for _ in 0..levels`.
LaplacianLevel ==
    /\ pc = "lp_level"
    /\ Len(lp_pyramid) < lp_levels
    /\ LET cur == lp_working[Len(lp_working)]
       IN  \E downsampled \in Downsampled(cur) :
             \E upsampled \in Upsampled(downsampled, cur.width, cur.height) :
                /\ lp_pyramid' = Append(lp_pyramid, Subtracted(cur, upsampled))
                /\ lp_working' = Append(lp_working, downsampled)
    /\ UNCHANGED <<pc, op, result, lp_image, lp_levels, lp_boost, lp_current>>
    /\ UNCHANGED <<packerVars, passVars, genVars, texVars, mapsVars, claheVars>>

\* pyramid.push(current); pyramid
PushResidual ==
    /\ pc = "lp_level"
    /\ Len(lp_pyramid) = lp_levels
    /\ lp_pyramid' = WithResidual(lp_pyramid, lp_working[Len(lp_working)])
    /\ pc' = "lp_built"
    /\ UNCHANGED <<op, result, lp_image, lp_levels, lp_working, lp_boost, lp_current>>
    /\ UNCHANGED <<packerVars, passVars, genVars, texVars, mapsVars, claheVars>>

\* enhance_pyramid_levels(pyramid): level is the index of enumerate().
EnhanceLevels ==
    /\ pc = "lp_built"
    /\ lp_boost = <<>>
    /\ lp_boost' = [k \in DOMAIN lp_pyramid |-> Boost(k - 1)]
    /\ lp_pyramid' = [k \in DOMAIN lp_pyramid |-> Amplified(lp_pyramid[k], Boost(k - 1))]
    /\ UNCHANGED <<pc, op, result, lp_image, lp_levels, lp_working, lp_current>>
    /\ UNCHANGED <<packerVars, passVars, genVars, texVars, mapsVars, claheVars>>

\* reconstruct_from_pyramid: let mut current = pyramid.pop().unwrap()
PopResidual ==
    /\ pc = "lp_built"
    /\ lp_pyramid # <<>>
    /\ lp_current' = lp_pyramid[Len(lp_pyramid)]
    /\ lp_pyramid' = SubSeq(lp_pyramid, 1, Len(lp_pyramid) - 1)
    /\ pc' = "lp_reconstruct"
    /\ UNCHANGED <<op, result, lp_image, lp_levels, lp_working, lp_boost>>
    /\ UNCHANGED <<packerVars, passVars, genVars, texVars, mapsVars, claheVars>>

\* One round of `while let Some(laplacian) = pyramid.pop()`.
ReconstructLevel ==
    /\ pc = "lp_reconstruct"
    /\ lp_pyramid # <<>>
    /\ LET laplacian == lp_pyramid[Len(lp_pyramid)]
       IN  \E upsampled \in Upsampled(lp_current, laplacian.width, laplacian.height) :
              lp_current' = Added(upsampled, laplacian)
    /\ lp_pyramid' = SubSeq(lp_pyramid, 1, Len(lp_pyramid) - 1)
    /\ UNCHANGED <<pc, op, result, lp_image, lp_levels, lp_working, lp_boost>>
    /\ UNCHANGED <<packerVars, passVars, genVars, texVars, mapsVars, claheVars>>

\* The loop ends on None: current is returned.
ReconstructReturn ==
    /\ pc = "lp_reconstruct"
    /\ lp_pyramid = <<>>
    /\ result' = ImageOf(Shape(lp_current.width, lp_current.height))
    /\ pc' = "returned"
    /\ UNCHANGED <<op, lpVars>>
    /\ UNCHANGED <<packerVars, passVars, genVars, texVars, mapsVars, claheVars>>

\* A caller runs adaptive_clahe(image, 8, 2.5).
CallAdaptiveClahe(img) ==
    /\ pc = "idle"
    /\ op' = "clahe_histogram"
    /\ clahe_image' = img
    /\ pc' = "clahe_count"
    /\ UNCHANGED <<clahe_histogram, clahe_clipped, clahe_cdf, result>>
    /\ UNCHANGED <<packerVars, passVars, genVars, texVars, mapsVars, lpVars>>

\* for pixel in image.pixels() { histogram[pixel[0] as usize] += 1 }
ClaheCount ==
    /\ pc = "clahe_count"
    /\ clahe_histogram' = Histogram(clahe_image)
    /\ pc' = "clahe_clip"
    /\ UNCHANGED <<op, result, clahe_image, clahe_clipped, clahe_cdf>>
    /\ UNCHANGED <<packerVars, passVars, genVars, texVars, mapsVars, lpVars>>

\* The clipping loop and the redistribution loop.
ClaheClipAndRedistribute ==
    /\ pc = "clahe_clip"
    /\ LET clip == clip_value(clahe_image.width * clahe_image.height)
       IN  /\ clahe_clipped' = Clipped(clahe_histogram, clip)
           /\ clahe_histogram' = Redistributed(clahe_histogram, clip, clahe_clipped' \div 256)
    /\ pc' = "clahe_cdf"
    /\ UNCHANGED <<op, result, clahe_image, clahe_cdf>>
    /\ UNCHANGED <<packerVars, passVars, genVars, texVars, mapsVars, lpVars>>

\* cdf[0] = histogram[0]; cdf[i] = cdf[i - 1] + histogram[i]
ClaheCdf ==
    /\ pc = "clahe_cdf"
    /\ clahe_cdf' = Cdf(clahe_histogram)
    /\ result' = ImageOf(Shape(clahe_image.width, clahe_image.height))
    /\ pc' = "returned"
    /\ UNCHANGED <<op, clahe_image, clahe_histogram, clahe_clipped>>
    /\ UNCHANGED <<packerVars, passVars, genVars, texVars, mapsVars, lpVars>>

Next ==
    \/ \E width \in Dims, height \in Dims : CallSaveAsDds(width, height)
    \/ \E entry \in {"pack_rgba", "pack_and_save_dds"}, rgb \in RgbSources :
          \E alpha \in AlphaSources(rgb) : CallPack(entry, rgb, alpha)
    \/ PackRgba
    \/ DimsCheck
    \/ Compress
    \/ Serialize
    \/ CreateFile
    \/ WriteAll
    \/ Flush
    \/ \E kind \in PassKinds : \E args \in PassArgs(kind) : CallPass(kind, args)
    \/ \E w \in Workers : TakeItem(w)
    \/ \E w \in Workers : RunClosure(w)
    \/ PassDone
    \/ \E gen \in GenOps, width \in GenSides, height \in GenSides :
          CallGenerate(gen, width, height)
    \/ ToPerceptualLuminance
    \/ BuildLaplacianPyramid
    \/ EnhancePyramidLevels
    \/ ReconstructFromPyramid
    \/ GuidedFilter
    \/ AdaptiveClahe
    \/ EnhanceDetails
    \/ ToLuma8
    \/ NormalPass
    \/ ToRgba8
    \/ RoughnessPass
    \/ EdgeAwareSmoothing
    \/ \E img \in RoughnessAlbedos : CallRoughnessGenerate(img)
    \/ \E path \in AlbedoPaths, dir \in OutputDirs : CallGenerateMaps(path, dir)
    \/ LoadImage
    \/ HeightTaskBegin
    \/ HeightTaskEnd
    \/ NormalTaskBegin
    \/ NormalTaskHeight
    \/ NormalTaskEnd
    \/ Join
    \/ GenerateRoughness
    \/ SaveHeight
    \/ SaveNormal
    \/ SaveRoughness
    \/ \E img \in PyramidImages, n \in 0..MaxLevels : CallBuildLaplacianPyramid(img, n)
    \/ LaplacianLevel
    \/ PushResidual
    \/ EnhanceLevels
    \/ PopResidual
    \/ ReconstructLevel
    \/ ReconstructReturn
    \/ \E img \in ClaheImages : CallAdaptiveClahe(img)
    \/ ClaheCount
    \/ ClaheClipAndRedistribute
    \/ ClaheCdf

Spec == Init /\ [][Next]_vars

-----------------------------------------------------------------------------
(* Reading a record back: the little-endian word at a byte offset, and the *)
(* size of a record in bytes.                                              *)

WordAt(data, off) ==
    [hi |-> data.bytes[off + 3] + 256 * data.bytes[off + 4],
     lo |-> data.bytes[off + 1] + 256 * data.bytes[off + 2]]

ZeroWords(data, off, n) ==
    \A k \in 0..(n - 1) : WordAt(data, off + 4 * k) = [hi |-> 0, lo |-> 0]

RecordSize(data) == WPlus(W(Len(data.bytes)), data.payload)

\* The pixel-format sub-header (size 32, DDPF_FOURCC, "DXT5", five zero words)
\* lies at byte offset off.
SubHeaderAt(data, off) ==
    /\ Len(data.bytes) >= off + 32
    /\ WordAt(data, off) = [hi |-> 0, lo |-> 32]
    /\ WordAt(data, off + 4) = [hi |-> 0, lo |-> 4]
    /\ SubSeq(data.bytes, off + 9, off + 12) = <<68, 88, 84, 53>>
    /\ ZeroWords(data, off + 12, 5)

\* The capability words (DDSCAPS_TEXTURE, then four zero words) lie at off.
CapsAt(data, off) ==
    /\ Len(data.bytes) >= off + 20
    /\ WordAt(data, off) = [hi |-> 0, lo |-> 4096]
    /\ ZeroWords(data, off + 4, 4)

IsPrefix(p, d) ==
    /\ Len(p.bytes) <= Len(d.bytes)
    /\ p.bytes = SubSeq(d.bytes, 1, Len(p.bytes))
    /\ \/ p.payload = [hi |-> 0, lo |-> 0]
       \/ p.bytes = d.bytes /\ p.payload = d.payload

SaveCalled == op \in {"save_as_dds", "pack_and_save_dds"}

\* save_as_dds has got past its dimension check.
PastDimsCheck == SaveCalled /\ pc \notin {"idle", "pack", "dims_check"}

\* dds_data holds the whole record (line 132 has run).
Serialized == SaveCalled /\ (pc \in {"create", "write", "flush"} \/ io_log # <<>>)

Blocks == (image.width \div 4) * (image.height \div 4)

IoFailed == io_log # <<>> /\ ~io_log[Len(io_log)].ok

-----------------------------------------------------------------------------
(* C1: save_as_dds (and pack_and_save_dds through it) given a width or a   *)
(* height that is no multiple of 4 returns the dimension error, and by     *)
(* then no compression has run, no record has been assembled, no I/O step  *)
(* has been attempted and the file at the output path is what it was.      *)
C1_DimensionErrorBeforeAnyWork ==
    (PastDimsCheck /\ ~(image.width % 4 = 0 /\ image.height % 4 = 0))
        => /\ pc = "returned"
           /\ result.tag = "Err"
           /\ result.msg = "Image dimensions {}x{} must be multiples of 4 for BC3 compression"
           /\ result.width = image.width /\ result.height = image.height
           /\ compress_calls = 0
           /\ dds_data = EmptyVec
           /\ io_log = <<>>
           /\ fs = fs0

C1_Witness ==
    /\ op = "save_as_dds" /\ pc = "returned"
    /\ image.width = 10 /\ image.height = 10
    /\ result.tag = "Err"
    /\ fs0 = OldFile

(* C2: for a width W and a height H that are multiples of 4, the payload   *)
(* appended to the container is exactly (W/4)*(H/4)*16 bytes long.         *)
C2_PayloadLength ==
    Serialized
        => /\ compress_calls = 1
           /\ dds_data.payload = compressed
           /\ dds_data.payload.lo % 16 = 0
           /\ dds_data.payload.hi * 4096 + dds_data.payload.lo \div 16 = Blocks

C2_Witness ==
    /\ Serialized /\ result.tag = "Ok"
    /\ image.width = 8 /\ image.height = 12
    /\ dds_data.payload = [hi |-> 0, lo |-> 96]

(* C3 as stated: the pixel-format sub-header starts at byte 128, the        *)
(* capability words at byte 160, the payload at byte 180, and the file is   *)
(* 180 + block_count*16 bytes long.                                         *)
C3_Original_Offsets180 ==
    Serialized
        => /\ Len(dds_data.bytes) = 180
           /\ SubHeaderAt(dds_data, 128)
           /\ CapsAt(dds_data, 160)
           /\ RecordSize(dds_data) = WPlus(W(180), WTimes(W(Blocks), 16))
           /\ result.tag = "Ok" => fs.data = dds_data

(* C3 amended: the pixel-format sub-header starts at byte 76, the           *)
(* capability words at byte 108, the payload at byte 128, and the record    *)
(* (and the file written on success) is 128 + block_count*16 bytes long.    *)
C3_Offsets128 ==
    Serialized
        => /\ Len(dds_data.bytes) = 128
           /\ SubHeaderAt(dds_data, 76)
           /\ CapsAt(dds_data, 108)
           /\ RecordSize(dds_data) = WPlus(W(128), WTimes(W(Blocks), 16))
           /\ result.tag = "Ok" => fs.data = dds_data

C3_Witness ==
    /\ Serialized /\ result.tag = "Ok"
    /\ image.width = 4 /\ image.height = 4
    /\ RecordSize(fs.data) = [hi |-> 0, lo |-> 144]

(* C4: the record is, in this order and as little-endian 32-bit words: the *)
(* magic "DDS ", 124, the flag word with exactly the bits 0x1, 0x2, 0x4,    *)
(* 0x1000 and 0x80000, the height, the width, the 32-bit linear size,       *)
(* depth 0, mip count 1, 11 zero words, the pixel-format sub-header, the    *)
(* five capability words, and then the compressed blocks.                   *)
C4_RecordLayout ==
    Serialized
        => /\ Len(dds_data.bytes) = 128
           /\ SubSeq(dds_data.bytes, 1, 4) = <<68, 68, 83, 32>>
           /\ WordAt(dds_data, 4) = [hi |-> 0, lo |-> 124]
           /\ WordAt(dds_data, 8) = [hi |-> 8, lo |-> 4103]
           /\ WordAt(dds_data, 12) = [hi |-> image.height \div 65536,
                                      lo |-> image.height % 65536]
           /\ WordAt(dds_data, 16) = [hi |-> image.width \div 65536,
                                      lo |-> image.width % 65536]
           /\ WordAt(dds_data, 20) = [hi |-> (Blocks \div 4096) % 65536,
                                      lo |-> (Blocks % 4096) * 16]
           /\ WordAt(dds_data, 24) = [hi |-> 0, lo |-> 0]
           /\ WordAt(dds_data, 28) = [hi |-> 0, lo |-> 1]
           /\ ZeroWords(dds_data, 32, 11)
           /\ SubHeaderAt(dds_data, 76)
           /\ CapsAt(dds_data, 108)
           /\ dds_data.payload = compressed

C4_Witness ==
    /\ Serialized /\ pc = "create"
    /\ image.width = 4 /\ image.height = 8
    /\ WordAt(dds_data, 12) = [hi |-> 0, lo |-> 8]
    /\ WordAt(dds_data, 16) = [hi |-> 0, lo |-> 4]

(* C5 as stated: in every file reported as written, the linear-size field  *)
(* of the header equals the number of payload bytes that follow it.        *)
C5_LinearSizeIsPayloadLength ==
    (Serialized /\ result.tag = "Ok")
        => WordAt(fs.data, 20) = fs.data.payload

C7_Original_NoPartialFile ==
    (pc = "returned" /\ IoFailed)
        => \/ fs = fs0
           \/ fs.data = EmptyVec
           \/ fs.data = dds_data

(* C7 amended: whenever save_as_dds returns an I/O error, the path holds   *)
(* what it held before the call (create failed) or a file that is a prefix *)
(* of the record, which may be empty or cut short; the complete record is  *)
(* there whenever success is returned.                                     *)
C7_PrefixOnError ==
    /\ (pc = "returned" /\ IoFailed)
          => \/ ~io_log[1].ok /\ fs = fs0
             \/ io_log[1].ok /\ fs.exists /\ IsPrefix(fs.data, dds_data)
    /\ (SaveCalled /\ result.tag = "Ok")
          => fs.exists /\ fs.data = dds_data

C7_Witness ==
    /\ pc = "returned" /\ IoFailed
    /\ Len(io_log) = 2
    /\ Len(fs.data.bytes) = 4
    /\ image.width = 4 /\ image.height = 4

\* The R, G, B samples of a source pixel, and its luminance.
SourceRGB(img, i) ==
    IF img.variant = "Luma8"
    THEN <<img.px[i][1], img.px[i][1], img.px[i][1]>>
    ELSE <<img.px[i][1], img.px[i][2], img.px[i][3]>>

SourceLuma(img, i) ==
    IF img.variant = "Luma8"
    THEN img.px[i][1]
    ELSE (2126 * img.px[i][1] + 7152 * img.px[i][2] + 722 * img.px[i][3]) \div 10000

(* C8: pack_rgba returns an RGBA image of the RGB source's width and       *)
(* height whose R, G, B are the RGB source's at every pixel; when the two   *)
(* sources have the same dimensions the alpha at (x, y) is the luminance    *)
(* of the alpha source at (x, y); neither source is modified.               *)
C8_PackRgba ==
    [][ /\ pc # "idle" => rgb_source' = rgb_source /\ alpha_source' = alpha_source
        /\ pc = "pack"
             => /\ packed'.variant = "Rgba8"
                /\ packed'.width = rgb_source.width
                /\ packed'.height = rgb_source.height
                /\ DOMAIN packed'.px = 0..(rgb_source.width * rgb_source.height - 1)
                /\ \A i \in DOMAIN packed'.px :
                      /\ SubSeq(packed'.px[i], 1, 3) = SourceRGB(rgb_source, i)
                      /\ Len(packed'.px[i]) = 4
                      /\ dimensions(alpha_source) = dimensions(rgb_source)
                           => packed'.px[i][4] = SourceLuma(alpha_source, i)
      ]_vars

C8_Witness ==
    /\ op = "pack_rgba" /\ pc = "returned"
    /\ rgb_source.width = 4 /\ rgb_source.height = 2
    /\ rgb_source.variant = "Rgb8"
    /\ alpha_source.variant = "Rgba8"
    /\ dimensions(alpha_source) = <<4, 2>>
    /\ packed.px[5][4] = SourceLuma(alpha_source, 5)

PassCalled == op \in PassKinds

PassPixels == 0..(pass_arg[1].width * pass_arg[1].height - 1)

\* The closure's value for pixel i's own coordinates on what was captured.
PassExpected(i) ==
    PixelFn(op, pass_in, i % pass_arg[1].width, i \div pass_arg[1].width)

\* State part of C9.
PassWritesOnce ==
    PassCalled =>
        /\ DOMAIN pass_out = PassPixels
        /\ \A i \in PassPixels :
              /\ pass_writes[i] <= 1
              /\ pass_writes[i] = 0 => pass_out[i] = Zeroed
              /\ pass_writes[i] = 1 => pass_out[i] = PassExpected(i)
        /\ \A w \in Workers, v \in Workers :
              w # v /\ pass_held[w] # -1 => pass_held[w] # pass_held[v]
        /\ pc = "returned" =>
              /\ pass_in \in Captures(op, pass_arg)
              /\ \A i \in PassPixels : pass_writes[i] = 1

(* C9: in each parallel per-pixel pass of the three synthesizers no output *)
(* pixel is written more than once and no two workers hold the same item;  *)
(* a written pixel holds the closure's value for its own coordinates on    *)
(* the captured input, an unwritten one is still zeroed; while the pass    *)
(* runs the captured input and the arguments are never changed; and when   *)
(* the pass returns every pixel has been written exactly once, so the      *)
(* buffer is the same under every interleaving of the workers.             *)
C9_ParallelPassWritesOnce ==
    /\ []PassWritesOnce
    /\ [][pc = "pass" => pass_in' = pass_in /\ pass_arg' = pass_arg]_vars

\* The roughness pass over six pixels: the iterator is exhausted, four
\* pixels are written, and the two workers hold the last two items, the
\* later item with the first worker.
C9_Witness ==
    /\ op = "roughness_map"
    /\ pc = "pass"
    /\ pass_cursor = 6
    /\ pass_held[1] = 5 /\ pass_held[2] = 4
    /\ \A i \in 0..3 : pass_writes[i] = 1 /\ pass_out[i] = PassExpected(i)
    /\ pass_out[0] # pass_out[3]
    /\ pass_out[4] = Zeroed /\ pass_out[5] = Zeroed

GenCalled == op \in GenOps

(* C10: for every input of at least 1x1 pixels, generate of the height,    *)
(* roughness and normal generators returns an image (it does not panic) of *)
(* the width and height of its input, and the image every step of the      *)
(* pipeline leaves has that width and height; the first level of the       *)
(* Laplacian pyramid has it too.                                           *)
C10_DimensionsPreserved ==
    GenCalled =>
        /\ result.tag # "panic"
        /\ albedo.width >= 1 /\ albedo.height >= 1
        /\ pc # FirstStep(op) => gray = albedo
        /\ pc \notin {FirstStep(op), "normal_pass", "roughness_pass"} =>
              current = albedo
        /\ pc \in {"enhance_pyramid_levels", "reconstruct_from_pyramid"} =>
              /\ Len(pyramid) = levels + 1
              /\ pyramid[1] = albedo
        /\ pc = "returned" =>
              /\ result.tag = "Image"
              /\ result.width = albedo.width
              /\ result.height = albedo.height

\* HeightMapGenerator::generate has returned for a 5x7 albedo.
C10_Witness ==
    /\ op = "HeightMapGenerator::generate"
    /\ pc = "returned"
    /\ albedo = Shape(5, 7)
    /\ result = ImageOf(Shape(5, 7))

IsFlat(img) == \A i \in DOMAIN img.px, j \in DOMAIN img.px : img.px[i] = img.px[j]

(* C11: for an albedo of at least 1x1 pixels in which every pixel has the  *)
(* same colour, RoughnessMapGenerator::generate fills roughness_map with   *)
(* one and the same byte at every pixel, borders and corners included, and *)
(* the smoothing pass computes every pixel of the returned image from the  *)
(* same centre, sigma and neighbours, so that the returned image is        *)
(* constant too and has the albedo's size.                                 *)
C11_FlatAlbedoConstantRoughness ==
    (op = "RoughnessMapGenerator::generate" /\ source # NoImage /\ IsFlat(source)) =>
        /\ pc \in {"edge_aware_smoothing_enhanced", "returned"} =>
              /\ dimensions(roughness_map) = dimensions(source)
              /\ DOMAIN roughness_map.px = DOMAIN source.px
              /\ IsFlat(roughness_map)
        /\ pc = "returned" =>
              /\ DOMAIN smoothed = DOMAIN source.px
              /\ \A i \in DOMAIN smoothed : smoothed[i] = smoothed[0]
              /\ smoothed[0].center = roughness_map.px[0][1]
              /\ result = ImageOf(Shape(source.width, source.height))

\* generate has returned for a 4x3 albedo of uniform mid-gray, which has
\* corner, border and interior pixels.
C11_Witness ==
    /\ op = "RoughnessMapGenerator::generate"
    /\ pc = "returned"
    /\ source = FlatImage("Rgb8", 4, 3, <<128, 128, 128>>)
    /\ IsFlat(roughness_map)
    /\ smoothed[0] = smoothed[5] /\ smoothed[5] = smoothed[11]

MapsCalled == op = "generate_maps"

Returned == MapsCalled /\ pc = "returned"

Loaded == MapsCalled /\ tasks.a # "idle"

SavedOk(map) == \E k \in DOMAIN save_log : save_log[k].map = map /\ save_log[k].ok

AllSaved == SavedOk("height") /\ SavedOk("normal") /\ SavedOk("roughness")

RecordKeys == {"success", "error", "progress"}

PathKeys == {"height_path", "normal_path", "roughness_path"}

(* C12 as stated: every status record returned by generate_maps, after a   *)
(* success as after a failed load or a failed save, contains the keys      *)
(* success, error and progress and the three output paths.                 *)
C12_RecordHasAllKeys ==
    Returned => RecordKeys \cup PathKeys \subseteq DOMAIN record

Generating ==
    tasks.a \in {"ready", "generating"}
      \/ tasks.b \in {"ready", "generating_height", "generating_normal"}
      \/ pc = "roughness"

JoinedTasks == {"a", "b"}

(* C13: in generate_maps, under every interleaving of the two closures of  *)
(* rayon::join, the roughness map is generated and a save is attempted     *)
(* only after both closures have returned; the second closure generates    *)
(* its own height map from albedo_clone and gives that one to the normal   *)
(* generator; no buffer written by one closure is read or written by the   *)
(* other; and no file is written while a map is still being generated.     *)
C13_JoinBeforeRoughnessAndSaves ==
    MapsCalled =>
        /\ (pc \in {"roughness", "save_height", "save_normal", "save_roughness"}
               \/ buffers["roughness"] # NotGenerated \/ save_log # <<>>) =>
              /\ tasks = [a |-> "done", b |-> "done"]
              /\ buffers["height_map"] = Generated("height", "albedo_image")
              /\ buffers["normal_map"] =
                    Generated("normal", Generated("height", "albedo_clone"))
        /\ \A w \in accesses, r \in accesses :
              (w.mode = "write" /\ w.who \in JoinedTasks /\ r.who \in JoinedTasks
                 /\ r.buffer = w.buffer) => r.who = w.who
        /\ (save_log # <<>> \/ disk # NoFiles) => ~Generating
        /\ save_log # <<>> => buffers["roughness"] = Generated("roughness", "albedo_image")

\* The second closure has its own height map while the first closure is
\* still generating.
C13_Witness ==
    /\ MapsCalled
    /\ tasks = [a |-> "generating", b |-> "generating_normal"]
    /\ buffers["height"] = Generated("height", "albedo_clone")
    /\ buffers["height_map"] = NotGenerated

\* The progress the record shows, 0 before the record exists.
C14_Progress == IF "progress" \in DOMAIN record THEN record["progress"] ELSE 0

(* C14: generate_maps returns success = true exactly when the albedo was   *)
(* loaded and the three saves succeeded; with success, progress is 100 and *)
(* error is empty; without, error is not empty and progress is 0 after a   *)
(* failed load and 70 after a failed save, never 100; and at every step    *)
(* progress stays or grows, through 0, 10, 70, 100.                        *)
C14_SuccessIffAllSaved ==
    /\ [](Returned =>
            /\ record["success"] = (Loaded /\ AllSaved)
            /\ record["success"] =>
                  record["progress"] = 100 /\ record["error"] = <<>>
            /\ ~record["success"] =>
                  /\ record["error"] # <<>>
                  /\ record["progress"] = IF Loaded THEN 70 ELSE 0)
    /\ [](MapsCalled => record["progress"] \in {0, 10, 70, 100})
    /\ [][MapsCalled => C14_Progress' >= C14_Progress]_vars

\* The record of a save that failed after the albedo was loaded.
C14_Witness ==
    /\ Returned
    /\ record["success"] = FALSE
    /\ record["progress"] = 70
    /\ record["error"] = SaveError("normal", "StorageFull")

(* C15: generate_maps attempts the saves in the order height, normal,      *)
(* roughness, each at most once; a save is attempted only when every       *)
(* earlier one succeeded; the call returns at the first failed save with   *)
(* that save's error; and a map saved before the failure is still complete *)
(* on disk although the record says success = false.                       *)
C15_SaveOrder ==
    MapsCalled =>
        /\ Len(save_log) <= 3
        /\ \A k \in DOMAIN save_log :
              /\ save_log[k].map = MapNames[k]
              /\ k < Len(save_log) => save_log[k].ok
              /\ save_log[k].ok => disk[save_log[k].map] = "complete"
        /\ \A k \in 1..3 : k > Len(save_log) => disk[MapNames[k]] = "absent"
        /\ (save_log # <<>> /\ ~save_log[Len(save_log)].ok) =>
              /\ Returned
              /\ record["success"] = FALSE
              /\ record["error"] = SaveError(save_log[Len(save_log)].map,
                                             save_log[Len(save_log)].cause)

\* The roughness save failed: the height and normal maps are on disk and
\* the record reports failure.
C15_Witness ==
    /\ Returned
    /\ Len(save_log) = 3
    /\ ~save_log[3].ok
    /\ disk["height"] = "complete" /\ disk["normal"] = "complete"
    /\ disk["roughness"] = "partial"
    /\ record["success"] = FALSE

PyramidCalled == op = "build_laplacian_pyramid"

\* reconstruct_from_pyramid has returned for a pyramid that was not enhanced.
RoundTripDone == PyramidCalled /\ pc = "returned" /\ lp_boost = <<>>

(* C16 as stated: build_laplacian_pyramid followed directly by             *)
(* reconstruct_from_pyramid returns an image in which every pixel is       *)
(* within 2 gray levels of the pixel of the original, for flat images too. *)
C16_RoundTripWithinTwo ==
    RoundTripDone =>
        \A i \in DOMAIN lp_image.px :
            Abs(lp_current.px[i][1] - lp_image.px[i][1]) <= 2

(* C17 as stated: at every level of build_laplacian_pyramid, for every     *)
(* image of at least 1x1 pixels, the image handed to the next level has    *)
(* half the width and half the height (rounded down) of the current one.   *)
C17_HalvedEachLevel ==
    PyramidCalled =>
        \A k \in 1..(Len(lp_working) - 1) :
            /\ lp_working[k + 1].width = lp_working[k].width \div 2
            /\ lp_working[k + 1].height = lp_working[k].height \div 2

(* C17 amended: the image handed to the next level has half the width and  *)
(* half the height, rounded down, when both halves are at least 1; when    *)
(* one of them would be 0 the current image is handed on as it is.         *)
C17_HalvedUnlessDegenerate ==
    PyramidCalled =>
        \A k \in 1..(Len(lp_working) - 1) :
            IF lp_working[k].width >= 2 /\ lp_working[k].height >= 2
            THEN /\ lp_working[k + 1].width = lp_working[k].width \div 2
                 /\ lp_working[k + 1].height = lp_working[k].height \div 2
            ELSE lp_working[k + 1] = lp_working[k]

\* A 5x3 image is halved to 2x1 and handed on as 2x1 from then on; the
\* three levels are built.
C17_Witness ==
    /\ PyramidCalled
    /\ pc = "lp_built"
    /\ dimensions(lp_image) = <<5, 3>>
    /\ Len(lp_working) = 4
    /\ dimensions(lp_working[2]) = <<2, 1>>
    /\ dimensions(lp_working[4]) = <<2, 1>>

(* C18: for every image of at least 1x1 pixels and every level count L,    *)
(* build_laplacian_pyramid returns L + 1 images, each at least 1x1;        *)
(* Laplacian level k has the size of the working image of level k and the  *)
(* residual the size of the last working image; every step of              *)
(* reconstruct_from_pyramid leaves an image of the size of the next finer  *)
(* level, and the image returned has the size of the original.             *)
C18_PyramidDimensions ==
    PyramidCalled =>
        /\ lp_image.width >= 1 /\ lp_image.height >= 1
        /\ \A k \in DOMAIN lp_pyramid :
              /\ dimensions(lp_pyramid[k]) = dimensions(lp_working[k])
              /\ lp_pyramid[k].width >= 1 /\ lp_pyramid[k].height >= 1
        /\ pc = "lp_built" =>
              /\ Len(lp_pyramid) = lp_levels + 1
              /\ Len(lp_working) = lp_levels + 1
        /\ pc = "lp_reconstruct" =>
              /\ Len(lp_pyramid) <= lp_levels
              /\ dimensions(lp_current) = dimensions(lp_working[Len(lp_pyramid) + 1])
        /\ pc = "returned" =>
              /\ dimensions(lp_current) = dimensions(lp_image)
              /\ result = ImageOf(Shape(lp_image.width, lp_image.height))

\* The pyramid of an 8x8 image with 3 levels has been reconstructed up to
\* the 4x4 level.
C18_Witness ==
    /\ PyramidCalled
    /\ pc = "lp_reconstruct"
    /\ dimensions(lp_image) = <<8, 8>>
    /\ lp_levels = 3
    /\ Len(lp_pyramid) = 1
    /\ dimensions(lp_current) = <<4, 4>>

(* C19 as stated: enhance_pyramid_levels gives level `level` the boost     *)
(* 1 + level * 0.15, and a finer level of the pyramid (one built earlier,  *)
(* from a larger working image) gets a boost at least as large as every    *)
(* coarser one, the residual getting the smallest.                         *)
C19_FinerBoostedMore ==
    (PyramidCalled /\ lp_boost # <<>>) =>
        /\ \A k \in DOMAIN lp_boost : lp_boost[k] = 100 + 15 * (k - 1)
        /\ \A i \in DOMAIN lp_boost, j \in DOMAIN lp_boost :
              i < j => lp_boost[i] >= lp_boost[j]

ClaheCalled == op = "clahe_histogram"

(* C20 as stated: in adaptive_clahe, after the clipping and redistribution *)
(* loops the 256 bins of the histogram sum to the number of pixels of the  *)
(* image, and the last entry of cdf is the number of pixels.               *)
C20_ClippedMassRedistributed ==
    ClaheCalled =>
        /\ pc \in {"clahe_cdf", "returned"} =>
              SumRange(clahe_histogram, 0, 255) = clahe_image.width * clahe_image.height
        /\ pc = "returned" =>
              clahe_cdf[255] = clahe_image.width * clahe_image.height

\* guided_filter was called with one image as input and as guide.
SelfGuided ==
    /\ op = "guided_filter"
    /\ pass_arg[1] = pass_arg[2]
    /\ pass_arg[1] \in SelfGuidedImages

\* count * (255 * mean_input - guide's value at the pixel), in gray levels
Pull(sums) == sums.sum_input - sums.count * sums.guide_val

\* With cov = var_guide, a = var / (var + epsilon) and
\* filtered * 255 = g + (1 - a) * (255 * mean - g) = g + drift with
\* drift = 2601 * count * Pull / (4 * var_guide + epsilon4).  The byte
\* written, the value truncated, is g - 1, g or g + 1 exactly when
\* -1 <= drift < 2.
WithinRounding(sums) ==
    LET B == 4 * var_guide(sums) + epsilon4(sums)
        L == 2601 * Pull(sums)
    IN  /\ -L <= B \div sums.count
        /\ L <= (2 * B - 1) \div sums.count

(* C21 as stated: when guided_filter is given one image as guide and as    *)
(* input, with radius 8 and epsilon 0.01, every pixel it writes is within  *)
(* 1 gray level of that image's pixel, for every image.                    *)
C21_SelfGuidedIsIdentity ==
    SelfGuided =>
        \A i \in PassPixels : pass_writes[i] = 1 => WithinRounding(pass_out[i])

(* C21 amended: when guided_filter is given one image as guide and as      *)
(* input, every pixel it writes is the image's pixel moved towards the     *)
(* mean of its clamped 17x17 window by the factor                          *)
(* 1 - a = epsilon / (var + epsilon), which is in (0, 1]: it lies between  *)
(* the pixel and the window mean; for a flat image it is within 1 gray     *)
(* level of the pixel.                                                     *)
C21_SelfGuidedPullsToMean ==
    SelfGuided =>
        \A i \in PassPixels : pass_writes[i] = 1 =>
            /\ pass_out[i].guide_val = pass_arg[1].px[i][1]
            /\ pass_out[i].count = 289
            /\ cov(pass_out[i]) = var_guide(pass_out[i])
            /\ var_guide(pass_out[i]) >= 0
            /\ IsFlat(pass_arg[1]) =>
                  Pull(pass_out[i]) = 0 /\ WithinRounding(pass_out[i])
            /\ ~IsFlat(pass_arg[1]) => var_guide(pass_out[i]) > 0

\* The checkered 2x2 image has been filtered: its window variance is
\* positive at every pixel, and the corner of value 100 is moved more than
\* a gray level towards the mean.
C21_Witness ==
    /\ SelfGuided
    /\ pc = "returned"
    /\ ~IsFlat(pass_arg[1])
    /\ dimensions(pass_arg[1]) = <<2, 2>>
    /\ \A i \in PassPixels : pass_writes[i] = 1 /\ var_guide(pass_out[i]) > 0
    /\ pass_out[0].guide_val = 100
    /\ Pull(pass_out[0]) > 0
    /\ ~WithinRounding(pass_out[0])

\* The passes whose closures read neighbours of their pixel.
WindowKinds ==
    {"normal_map", "roughness_map", "edge_aware_smoothing_enhanced", "guided_filter"}

\* The coordinate read is in the image and no coordinate of the image is
\* nearer, in x or in y, to the one asked for.
ReplicateEdge(img, read) ==
    /\ read.got[1] \in 0..(img.width - 1)
    /\ read.got[2] \in 0..(img.height - 1)
    /\ \A cx \in 0..(img.width - 1) :
          Abs(read.got[1] - read.want[1]) <= Abs(cx - read.want[1])
    /\ \A cy \in 0..(img.height - 1) :
          Abs(read.got[2] - read.want[2]) <= Abs(cy - read.want[2])

\* The reads of the closure for the item a worker holds.
HeldReads(w) ==
    Reads(op, pass_in[1], pass_held[w] % pass_in[1].width,
          pass_held[w] \div pass_in[1].width)

\* The image the next call of upsample is given, and the size it is to fill.
NextUpsample ==
    IF pc = "lp_level"
    THEN LET cur == lp_working[Len(lp_working)]
         IN  [image |-> [width |-> HalfSize(cur)[1], height |-> HalfSize(cur)[2]],
              target |-> dimensions(cur)]
    ELSE [image |-> lp_current,
          target |-> dimensions(lp_pyramid[Len(lp_pyramid)])]

(* C22: for every image of at least 1x1 pixels, every pixel and every      *)
(* offset of a kernel or window, the coordinate the Scharr operators, the  *)
(* structure tensor, the guided filter, the roughness windows and upsample *)
(* give to get_pixel is inside the image and is the coordinate of the      *)
(* image nearest to the one asked for (the edge is replicated, nothing is  *)
(* wrapped or padded); no pass and no pyramid call ends in a panic.        *)
C22_ReplicateEdgeReads ==
    /\ (op \in WindowKinds /\ pc = "pass") =>
          /\ pass_in[1].width >= 1 /\ pass_in[1].height >= 1
          /\ \A w \in Workers : pass_held[w] # -1 =>
                \A read \in HeldReads(w) : ReplicateEdge(pass_in[1], read)
    /\ (PyramidCalled /\ (pc = "lp_level" \/ (pc = "lp_reconstruct" /\ lp_pyramid # <<>>))) =>
          /\ NextUpsample.image.width >= 1 /\ NextUpsample.image.height >= 1
          /\ \A x \in 0..(NextUpsample.target[1] - 1), y \in 0..(NextUpsample.target[2] - 1) :
                ReplicateEdge(NextUpsample.image, UpsampleRead(NextUpsample.image, x, y))
    /\ (op \in WindowKinds \/ PyramidCalled \/ GenCalled) => result.tag # "panic"

\* A worker holds the last pixel of a 3x2 height map in the normal pass:
\* its kernels ask for coordinates beyond both borders and are given the
\* corner.
C22_Witness ==
    /\ op = "normal_map"
    /\ pc = "pass"
    /\ dimensions(pass_in[1]) = <<3, 2>>
    /\ pass_held[1] = 5
    /\ \E read \in HeldReads(1) : read.want = <<3, 2>> /\ read.got = <<2, 1>>
    /\ \E read \in HeldReads(1) : read.want = <<-1, -2>> /\ read.got = <<0, 0>>

====
